---- MODULE Spec2Model ----
(***************************************************************************)
(* ESP32-Notifier v3.2: the event-to-notification pipeline.                *)
(*                                                                         *)
(* The firmware is a single-threaded cooperative loop.  One step of the    *)
(* model is one iteration of loop() (with the web request that             *)
(* server.handleClient() serves in it, if any), or one change of the       *)
(* environment (a pin level, the WiFi station link).  The handlers are     *)
(* written as operators from a state record to a state record, so that a   *)
(* handler that calls another one is their composition.                    *)
(***************************************************************************)
EXTENDS Integers, Sequences, FiniteSets, TLC

(***************************************************************************)
(* Program constants                                                       *)
(***************************************************************************)
MAX_INPUTS == 4
BOARD_GENERIC == 0
BOARD_SIM7670G == 1
CONN_WIFI_ONLY == 0
CONN_CELL_ONLY == 1
CONN_WIFI_CELL_BACKUP == 2
WIFI_TIMEOUT == 20000
WIFI_CHECK_INTERVAL == 30000
DEBOUNCE_DELAY == 50
MIN_NOTIFICATION_INTERVAL == 5000
MAX_RETRIES == 3
RETRY_DELAY == 60000
MAX_LOG_ENTRIES == 100
EARLY_BOOT_CALLS == 3
RECONNECT_ATTEMPTS == 20
RECONNECT_POLL_MS == 500
SAVE_DELAY_MS == 50
WDT_TIMEOUT == 30
AT_TIMEOUT == 1000
AT_CHAR_MS == 10
AT_POLL_MS == 10
SMS_TIMEOUT == 10000
REGISTRATION_POLLS == 30
POLL_CHUNK == 25

LOW == FALSE
HIGH == TRUE

Inputs == 0 .. (MAX_INPUTS - 1)
Pins == {21, 38, 39, 40}
ConnModes == {CONN_WIFI_ONLY, CONN_CELL_ONLY, CONN_WIFI_CELL_BACKUP}
WiFiStates == {"WIFI_IDLE", "WIFI_CONNECTING", "WIFI_CONNECTED", "WIFI_FAILED"}

(***************************************************************************)
(* Text.  A String is a sequence of tokens [k, v]: a literal word, the     *)
(* "{timestamp}" placeholder, or a formatted time (v = the second).        *)
(***************************************************************************)
Lit(w) == [k |-> w, v |-> 0]
PLACEHOLDER == Lit("{timestamp}")
NEWLINE == Lit("\\n")
EMPTY == << >>

VARIABLES
  now,                \* millis()
  pinLevel,           \* electrical level of each GPIO (digitalRead)
  staUp,              \* WiFi.status() == WL_CONNECTED
  clockSet,           \* getLocalTime() succeeds
  wifiState, apMode, wifiConnectStart, lastWiFiCheck,
  cellular_connected,
  cfg,                \* the settings globals (channels, credentials, modes)
  inputs,             \* InputConfig inputs[MAX_INPUTS]
  retryQueue,         \* std::vector<NotificationRetry>
  logBuffer, logIndex, logCount,
  earlyBoot, callCount,      \* the statics of addLog
  needs_save_prefs, needs_time_update,
  ticks,              \* history: iterations of loop() so far
  tr,                 \* history: what the last step did
  hist                \* history: per-input record across steps

vars == << now, pinLevel, staUp, clockSet, wifiState, apMode, wifiConnectStart,
           lastWiFiCheck, cellular_connected, cfg, inputs, retryQueue,
           logBuffer, logIndex, logCount, earlyBoot, callCount,
           needs_save_prefs, needs_time_update, ticks, tr, hist >>

\* The program state as one record, threaded through the handlers.
State ==
  [ now |-> now, pinLevel |-> pinLevel, staUp |-> staUp, clockSet |-> clockSet,
    wifiState |-> wifiState, apMode |-> apMode,
    wifiConnectStart |-> wifiConnectStart, lastWiFiCheck |-> lastWiFiCheck,
    cellular_connected |-> cellular_connected, cfg |-> cfg, inputs |-> inputs,
    retryQueue |-> retryQueue, logBuffer |-> logBuffer, logIndex |-> logIndex,
    logCount |-> logCount, earlyBoot |-> earlyBoot, callCount |-> callCount,
    needs_save_prefs |-> needs_save_prefs,
    needs_time_update |-> needs_time_update, ticks |-> ticks, tr |-> tr,
    hist |-> hist ]

Commit(s) ==
  /\ now' = s.now
  /\ pinLevel' = s.pinLevel
  /\ staUp' = s.staUp
  /\ clockSet' = s.clockSet
  /\ wifiState' = s.wifiState
  /\ apMode' = s.apMode
  /\ wifiConnectStart' = s.wifiConnectStart
  /\ lastWiFiCheck' = s.lastWiFiCheck
  /\ cellular_connected' = s.cellular_connected
  /\ cfg' = s.cfg
  /\ inputs' = s.inputs
  /\ retryQueue' = s.retryQueue
  /\ logBuffer' = s.logBuffer
  /\ logIndex' = s.logIndex
  /\ logCount' = s.logCount
  /\ earlyBoot' = s.earlyBoot
  /\ callCount' = s.callCount
  /\ needs_save_prefs' = s.needs_save_prefs
  /\ needs_time_update' = s.needs_time_update
  /\ ticks' = s.ticks
  /\ tr' = s.tr
  /\ hist' = s.hist

(***************************************************************************)
(* History of one step: the samples, confirmed edges, dispatches, sender   *)
(* calls and queue operations, in program order.                           *)
(***************************************************************************)
NoTrace ==
  [ commits |-> << >>, dispatches |-> << >>, suppressed |-> << >>,
    sends |-> << >>, queued |-> << >>, rescheduled |-> << >>,
    erased |-> << >>, logged |-> << >>, saves |-> 0, submitted |-> 0,
    entered |-> 0,
    page |-> << >>, connects |-> << >>, samples |-> << >>,
    waits |-> << >>, phases |-> << >>, retried |-> << >> ]

Emit(s, f, x) == [s EXCEPT !.tr[f] = Append(@, x)]

(***************************************************************************)
(* Clock                                                                   *)
(***************************************************************************)
\* strftime "%Y-%m-%d %H:%M:%S": the wall clock at one-second resolution.
getFormattedTime(s) ==
  IF ~s.clockSet THEN << Lit("Time unavailable") >>
  ELSE << [k |-> "time", v |-> s.now \div 1000] >>

(***************************************************************************)
(* Logger                                                                  *)
(***************************************************************************)
NoEntry == [timestamp |-> EMPTY, level |-> "", message |-> << "", 0 >>]

addLog_Uncapped(s, level, message) ==
  IF s.earlyBoot
  THEN [s EXCEPT !.callCount = @ + 1,
                 !.earlyBoot = ~(s.callCount + 1 > EARLY_BOOT_CALLS)]
  ELSE LET entry == [timestamp |-> getFormattedTime(s), level |-> level,
                     message |-> message]
       IN [s EXCEPT !.logBuffer[s.logIndex] = entry,
                    !.logIndex = (s.logIndex + 1) % MAX_LOG_ENTRIES,
                    !.logCount = s.logCount + 1,
                    !.tr.logged = Append(@, entry)]

addLog(s, level, message) ==
  IF s.earlyBoot
  THEN [s EXCEPT !.callCount = @ + 1,
                 !.earlyBoot = ~(s.callCount + 1 > EARLY_BOOT_CALLS)]
  ELSE LET entry == [timestamp |-> getFormattedTime(s), level |-> level,
                     message |-> message]
       IN [s EXCEPT !.logBuffer[s.logIndex] = entry,
                    !.logIndex = (s.logIndex + 1) % MAX_LOG_ENTRIES,
                    !.logCount = IF s.logCount < MAX_LOG_ENTRIES
                                 THEN s.logCount + 1 ELSE s.logCount,
                    !.tr.logged = Append(@, entry)]

\* handleLogs: the entries in the order in which they are written to the
\* page (i runs from displayCount - 1 down to 0).
handleLogs(s) ==
  LET displayCount == IF s.logCount < MAX_LOG_ENTRIES THEN s.logCount
                      ELSE MAX_LOG_ENTRIES
  IN [j \in 1 .. displayCount |->
        LET i == displayCount - j
            idx == (s.logIndex - 1 - i + MAX_LOG_ENTRIES) % MAX_LOG_ENTRIES
        IN s.logBuffer[idx]]

(***************************************************************************)
(* Senders.  e is what the environment answers during this step:           *)
(*   e.ok[svc]  the WiFi-path request of svc succeeds (HTTP 2xx, SMTP ok)  *)
(*   e.cellOk   the response of the cellular HTTP relay reports success    *)
(*   e.smsOk    the modem answers OK to AT+CMGS                            *)
(*   e.dur      milliseconds a WiFi-path request blocks                    *)
(*   e.atDelay  milliseconds until the modem's answer to a command is      *)
(*              complete (-1: the modem stays silent)                      *)
(*   e.gps, e.bmp   the texts of getGPSLocation / getBMP180DataFormatted   *)
(*   e.reconnect    polls until the inline reconnect associates (or -1)    *)
(* A sender returns [s |-> the state after it, ok |-> its result].         *)
(***************************************************************************)
SendEvent(s, service, path, ok, origin) ==
  [service |-> service, path |-> path, ok |-> ok, origin |-> origin,
   at |-> s.now]

\* The three WiFi-path senders share their shape: give up when the station
\* is not associated, otherwise do the request and log its outcome.
WiFiSender(s, e, service, origin, failureLogged) ==
  IF ~s.staUp
  THEN [s |-> Emit(s, "sends", SendEvent(s, service, "wifi", FALSE, origin)),
        ok |-> FALSE]
  ELSE LET s1 == [s EXCEPT !.now = @ + e.dur]
           ok == e.ok[service]
           s2 == IF ok THEN addLog(s1, "SUCCESS", << service, 1 >>)
                 ELSE IF failureLogged THEN addLog(s1, "ERROR", << service, 0 >>)
                 ELSE s1
       IN [s |-> Emit(s2, "sends", SendEvent(s2, service, "wifi", ok, origin)),
           ok |-> ok]

sendPushbulletNotification(s, e, origin) ==
  WiFiSender(s, e, "pushbullet", origin, TRUE)

\* smtp->connect() failing returns without a log entry; a failed
\* MailClient.sendMail() logs an ERROR.
sendEmailNotification(s, e, origin) ==
  WiFiSender(s, e, "email", origin, e.smtpConnects)

sendTelegramNotification(s, e, origin) ==
  WiFiSender(s, e, "telegram", origin, TRUE)

\* A polling loop "while (millis() - startTime < timeout)" that leaves when
\* the awaited answer has arrived (replyAfter milliseconds after its start;
\* -1: never), each iteration taking step milliseconds.  r is the loop's
\* state: the time elapsed, whether the answer was seen, whether the loop
\* has ended.
Poll(r, timeout, step, replyAfter) ==
  IF ~(r.elapsed < timeout) THEN [r EXCEPT !.done = TRUE]
  ELSE IF replyAfter >= 0 /\ r.elapsed >= replyAfter
  THEN [r EXCEPT !.replied = TRUE, !.done = TRUE]
  ELSE [r EXCEPT !.elapsed = @ + step]

\* n runs of POLL_CHUNK ^ level iterations of the loop, stopping at its end.
RECURSIVE PollRun(_, _, _, _, _, _)
PollRun(r, timeout, step, replyAfter, level, n) ==
  IF r.done \/ n = 0 THEN r
  ELSE LET r1 == IF level = 0 THEN Poll(r, timeout, step, replyAfter)
                 ELSE PollRun(r, timeout, step, replyAfter, level - 1, POLL_CHUNK)
       IN PollRun(r1, timeout, step, replyAfter, level, n - 1)

\* The loop run to its end.
RECURSIVE WaitFrom(_, _, _, _)
WaitFrom(r, timeout, step, replyAfter) ==
  LET r1 == PollRun(r, timeout, step, replyAfter, 2, POLL_CHUNK)
  IN IF r1.done THEN r1 ELSE WaitFrom(r1, timeout, step, replyAfter)

WaitLoop(elapsed, timeout, step, replyAfter) ==
  WaitFrom([elapsed |-> elapsed, replied |-> FALSE, done |-> FALSE],
           timeout, step, replyAfter)

\* History: a blocking wait that has ended.  limit: its bound; elapsed: what
\* it took (milliseconds, or polls for the registration wait); expired: it
\* ended without what it waited for; ok: the result that the operation
\* which waited reported.
WaitEvent(s, kind, limit, elapsed, expired, ok) ==
  [kind |-> kind, limit |-> limit, elapsed |-> elapsed, expired |-> expired,
   ok |-> ok, at |-> s.now]

delay(s, ms) == [s EXCEPT !.now = @ + ms]

\* sendATCommand: the command is written one character every AT_CHAR_MS,
\* then the answer is awaited, polling every AT_POLL_MS, until it holds OK
\* or ERROR or timeout has passed.  replied: the answer was complete.
sendATCommand(s, e, command, timeout) ==
  LET Answered(written, r) ==
        [s |-> Emit(delay(written, r.elapsed), "waits",
                    WaitEvent(delay(written, r.elapsed), "at", timeout, r.elapsed,
                              ~r.replied, r.replied)),
         replied |-> r.replied]
  IN Answered(delay(s, (Len(command) + 2) * AT_CHAR_MS),
              WaitLoop(0, timeout, AT_POLL_MS, e.atDelay))

\* The URL of the request that sendNotifications relays for service.
RelayUrl(s, service) ==
  IF service = "pushbullet" THEN "https://api.pushbullet.com/v2/pushes"
  ELSE "https://api.telegram.org/bot" \o s.cfg.telegram_token \o "/sendMessage"

\* The AT-command HTTP relay (always a POST here); ok stands for "the
\* response of AT+HTTPREAD contains 200/OK".  A silent modem leaves the
\* response empty.
sendHTTPRequest(s, e, service, origin) ==
  IF ~s.cellular_connected
  THEN [s |-> Emit(addLog(s, "ERROR", << "HTTP: No cellular connection", 0 >>),
                   "sends", SendEvent(s, service, "cell", FALSE, origin)),
        ok |-> FALSE]
  ELSE LET a1 == sendATCommand(s, e, "AT+HTTPTERM", AT_TIMEOUT).s
           a2 == sendATCommand(delay(a1, 500), e, "AT+HTTPINIT", AT_TIMEOUT).s
           a3 == sendATCommand(a2, e, "AT+HTTPPARA=\"URL\",\"" \o RelayUrl(s, service) \o "\"",
                               AT_TIMEOUT).s
           a4 == sendATCommand(a3, e, "AT+HTTPPARA=\"CONTENT\",\"application/json\"",
                               AT_TIMEOUT).s
           a5 == sendATCommand(a4, e, "AT+HTTPDATA=0,10000", AT_TIMEOUT).s
           a6 == sendATCommand(delay(delay(a5, 500), 1000), e, "AT+HTTPACTION=1", 15000).s
           Sent(s2, ok) ==
             [s |-> Emit(s2, "sends", SendEvent(s2, service, "cell", ok, origin)),
              ok |-> ok]
           Terminated(s1, read, replied) ==
             Sent(Emit(s1, "waits",
                       WaitEvent(s1, "http", 5000, read.elapsed, ~replied,
                                 replied /\ e.cellOk)),
                  replied /\ e.cellOk)
           Read(a7) ==
             Terminated(sendATCommand(a7.s, e, "AT+HTTPTERM", AT_TIMEOUT).s,
                        a7.s.tr.waits[Len(a7.s.tr.waits)], a7.replied)
       IN Read(sendATCommand(delay(a6, 2000), e, "AT+HTTPREAD", 5000))

\* sendSMS: after the message is written the answer is awaited in a busy
\* loop (one iteration per millisecond of the clock) for at most
\* SMS_TIMEOUT; OK is success, ERROR and the expiry are failures.
sendSMS(s, e, origin) ==
  IF ~s.cellular_connected
  THEN [s |-> Emit(addLog(s, "ERROR", << "SMS: No cellular connection", 0 >>),
                   "sends", SendEvent(s, "sms", "cell", FALSE, origin)),
        ok |-> FALSE]
  ELSE LET a1 == sendATCommand(s, e, "AT+CMGF=1", AT_TIMEOUT).s
           r == WaitLoop(0, SMS_TIMEOUT, 1, e.atDelay)
           ok == r.replied /\ e.smsOk
           a2 == delay(delay(a1, 500), r.elapsed)
           s1 == Emit(a2, "waits",
                      WaitEvent(a2, "sms", SMS_TIMEOUT, r.elapsed, ~r.replied, ok))
           s2 == IF ok THEN addLog(s1, "SUCCESS", << "sms", 1 >>)
                 ELSE addLog(s1, "ERROR", << "sms", 0 >>)
       IN [s |-> Emit(s2, "sends", SendEvent(s2, "sms", "cell", ok, origin)),
           ok |-> ok]

\* The registration wait of connectCellular from poll i on: AT+CREG? is
\* asked once a second until it reports "registered" (from poll m.regAfter
\* on; -1: never) or REGISTRATION_POLLS polls are made.
RECURSIVE RegistrationFrom(_, _, _)
RegistrationFrom(s, m, i) ==
  IF ~(i < REGISTRATION_POLLS) THEN [s |-> s, registered |-> FALSE, polls |-> i]
  ELSE LET a == sendATCommand(s, m, "AT+CREG?", AT_TIMEOUT)
       IN IF a.replied /\ m.regAfter >= 0 /\ i >= m.regAfter
          THEN [s |-> a.s, registered |-> TRUE, polls |-> i + 1]
          ELSE RegistrationFrom(delay(a.s, 1000), m, i + 1)

\* connectCellular, called by setup() when the modem is initialized.  m is
\* what the modem answers: m.simReady (AT+CPIN? reports READY), m.regAfter,
\* m.cgactOk (AT+CGACT=1,1 is answered with OK), m.atDelay.  No APN is
\* stored, so AT+CGDCONT is not sent.
connectCellular(s, m) ==
  IF ~s.cfg.cellular_enabled \/ ~s.cfg.modem_initialized THEN [s |-> s, ok |-> FALSE]
  ELSE LET s1 == delay(addLog(s, "INFO", << "Connecting to cellular network", 0 >>), 2000)
           pin == sendATCommand(s1, m, "AT+CPIN?", 3000)
       IN IF ~(pin.replied /\ m.simReady)
          THEN [s |-> addLog(pin.s, "ERROR", << "SIM card not ready", 0 >>), ok |-> FALSE]
          ELSE LET reg == RegistrationFrom(pin.s, m, 0)
                   a1 == sendATCommand(reg.s, m, "AT+COPS?", AT_TIMEOUT).s
                   a2 == sendATCommand(a1, m, "AT+CSQ", AT_TIMEOUT).s
                   a3 == sendATCommand(a2, m, "AT+CPSI?", AT_TIMEOUT).s
                   act == sendATCommand(a3, m, "AT+CGACT=1,1", 5000)
                   ok == act.replied /\ m.cgactOk
                   s2 == Emit(act.s, "waits",
                              WaitEvent(act.s, "registration", REGISTRATION_POLLS,
                                        reg.polls, ~reg.registered, ok))
               IN [s |-> IF ok
                         THEN addLog([s2 EXCEPT !.cellular_connected = TRUE],
                                     "SUCCESS", << "Cellular connected", 0 >>)
                         ELSE addLog(s2, "ERROR", << "Cellular connection failed", 0 >>),
                   ok |-> ok]

(***************************************************************************)
(* Retry queue                                                             *)
(***************************************************************************)
\* attempts is history: the sender calls made so far for this notification.
queueRetry(s, service, title, body) ==
  LET retry == [service |-> service, title |-> title, body |-> body,
                retryTime |-> s.now + RETRY_DELAY, retryCount |-> 0,
                attempts |-> 1, born |-> s.now]
  IN Emit([s EXCEPT !.retryQueue = Append(@, retry)], "queued",
          [entry |-> retry, at |-> s.now])

EraseAt(q, i) == SubSeq(q, 1, i - 1) \o SubSeq(q, i + 1, Len(q))

\* A backoff that doubles (60 s, 120 s, 240 s) instead of growing linearly.
RetryDelayFor_Doubling(retryCount) == RETRY_DELAY * (2 ^ retryCount)

\* The delay of the next retry, from the retryCount already incremented.
RetryDelayFor(retryCount) == RETRY_DELAY * (retryCount + 1)

\* An entry given one retry more before it is dropped.
ExhaustedAt_OneLate(retryCount) == retryCount > MAX_RETRIES

\* The test that ends an entry's retries.
ExhaustedAt(retryCount) == retryCount >= MAX_RETRIES

\* The body of the for loop, for the entry at (1-based) position i.
RetryEntry(s0, e, i) ==
  LET r == s0.retryQueue[i]
      s == Emit(s0, "retried", [entry |-> r, position |-> i, at |-> s0.now])
      res == IF r.service = "pushbullet" THEN sendPushbulletNotification(s, e, "retry")
             ELSE IF r.service = "email" THEN sendEmailNotification(s, e, "retry")
             ELSE IF r.service = "telegram" THEN sendTelegramNotification(s, e, "retry")
             ELSE [s |-> s, ok |-> FALSE]
      s1 == res.s
      tried == [r EXCEPT !.attempts = @ + 1]
  IN IF res.ok \/ ExhaustedAt(r.retryCount)
     THEN Emit([s1 EXCEPT !.retryQueue = EraseAt(@, i)], "erased",
               [entry |-> tried, success |-> res.ok, at |-> s1.now])
     ELSE LET next == [tried EXCEPT !.retryCount = @ + 1,
                                    !.retryTime = s1.now + RetryDelayFor(r.retryCount + 1)]
          IN Emit([s1 EXCEPT !.retryQueue[i] = next], "rescheduled",
                  [entry |-> next, at |-> s1.now])

\* A pass whose index steps over the entry below an erased one, as a loop
\* counting upwards does with the entry that moves into the erased slot.
RECURSIVE RetryFrom_SkipAfterErase(_, _, _)
RetryFrom_SkipAfterErase(s, e, i) ==
  IF i < 1 THEN s
  ELSE IF s.now >= s.retryQueue[i].retryTime
       THEN LET Continued(s1) ==
                  RetryFrom_SkipAfterErase(
                    s1, e, IF Len(s1.retryQueue) < Len(s.retryQueue) THEN i - 2 ELSE i - 1)
            IN Continued(RetryEntry(s, e, i))
       ELSE RetryFrom_SkipAfterErase(s, e, i - 1)

\* The for loop of processRetryQueue from position i down to the front.
RECURSIVE RetryFrom(_, _, _)
RetryFrom(s, e, i) ==
  IF i < 1 THEN s
  ELSE IF s.now >= s.retryQueue[i].retryTime
       THEN RetryFrom(RetryEntry(s, e, i), e, i - 1)
       ELSE RetryFrom(s, e, i - 1)

processRetryQueue(s, e) == RetryFrom(s, e, Len(s.retryQueue))

(***************************************************************************)
(* Routing and dispatch                                                    *)
(***************************************************************************)
shouldUseCellular_CellularFirst(s, connectionMode) ==
  CASE connectionMode = CONN_WIFI_ONLY -> FALSE
    [] connectionMode = CONN_CELL_ONLY -> s.cellular_connected
    [] connectionMode = CONN_WIFI_CELL_BACKUP -> s.cellular_connected
    [] OTHER -> FALSE

shouldUseCellular(s, connectionMode) ==
  CASE connectionMode = CONN_WIFI_ONLY -> FALSE
    [] connectionMode = CONN_CELL_ONLY -> s.cellular_connected
    [] connectionMode = CONN_WIFI_CELL_BACKUP ->
         (s.wifiState # "WIFI_CONNECTED" /\ s.cellular_connected)
    [] OTHER -> FALSE

\* The branch of a channel that has a cellular HTTP path (Pushbullet,
\* Telegram): the relay when routed to cellular, else the WiFi sender when
\* wifiState is connected; only a failed WiFi send is queued.
DispatchHttpChannel(s, e, service, mode, title, body) ==
  IF shouldUseCellular(s, mode)
  THEN LET Relayed(res) ==
             IF res.ok THEN addLog(res.s, "SUCCESS", << service, 2 >>)
             ELSE addLog(res.s, "ERROR", << service, 3 >>)
       IN Relayed(sendHTTPRequest(s, e, service, "dispatch"))
  ELSE IF s.wifiState = "WIFI_CONNECTED"
  THEN LET Sent(res) ==
             IF ~res.ok THEN queueRetry(res.s, service, title, body) ELSE res.s
       IN Sent(IF service = "pushbullet"
               THEN sendPushbulletNotification(s, e, "dispatch")
               ELSE sendTelegramNotification(s, e, "dispatch"))
  ELSE s

\* Pushbullet dispatched whenever it is enabled, with or without a token.
DispatchPushbullet_TokenUnchecked(s, e, title, body) ==
  IF s.cfg.pushbullet_enabled
  THEN DispatchHttpChannel(s, e, "pushbullet", s.cfg.pushbullet_conn_mode, title, body)
  ELSE s

DispatchPushbullet(s, e, title, body) ==
  IF s.cfg.pushbullet_enabled /\ s.cfg.pushbullet_token # ""
  THEN DispatchHttpChannel(s, e, "pushbullet", s.cfg.pushbullet_conn_mode, title, body)
  ELSE s

DispatchEmail_NoFallback(s, e, title, body) ==
  IF s.cfg.email_enabled /\ s.cfg.smtp_email # "" /\ s.cfg.recipient_email # ""
  THEN LET useCellular == shouldUseCellular(s, s.cfg.email_conn_mode)
       IN IF ~useCellular /\ s.wifiState = "WIFI_CONNECTED"
          THEN LET res == sendEmailNotification(s, e, "dispatch")
               IN IF ~res.ok THEN queueRetry(res.s, "email", title, body) ELSE res.s
          ELSE s
  ELSE s

DispatchEmail(s, e, title, body) ==
  IF s.cfg.email_enabled /\ s.cfg.smtp_email # "" /\ s.cfg.recipient_email # ""
  THEN LET useCellular == shouldUseCellular(s, s.cfg.email_conn_mode)
       IN IF ~useCellular /\ s.wifiState = "WIFI_CONNECTED"
          THEN LET res == sendEmailNotification(s, e, "dispatch")
               IN IF ~res.ok THEN queueRetry(res.s, "email", title, body) ELSE res.s
          ELSE IF useCellular /\ s.wifiState = "WIFI_CONNECTED"
          THEN sendEmailNotification(s, e, "dispatch").s
          ELSE s
  ELSE s

DispatchTelegram(s, e, title, body) ==
  IF s.cfg.telegram_enabled /\ s.cfg.telegram_token # "" /\ s.cfg.telegram_chat_id # ""
  THEN DispatchHttpChannel(s, e, "telegram", s.cfg.telegram_conn_mode, title, body)
  ELSE s

DispatchSMS(s, e, body) ==
  IF s.cfg.sms_enabled /\ s.cfg.sms_phone_number # ""
  THEN LET useCellular == shouldUseCellular(s, s.cfg.sms_conn_mode)
       IN IF useCellular \/ s.cellular_connected
          THEN sendSMS(s, e, "dispatch").s
          ELSE s
  ELSE s

sendNotifications(s, e, title, body0) ==
  LET body == IF s.cfg.include_bmp180_in_notifications /\ s.cfg.bmp180_initialized
                 /\ e.bmp # EMPTY
              THEN body0 \o << NEWLINE >> \o e.bmp ELSE body0
      s1 == DispatchPushbullet(s, e, title, body)
      s2 == DispatchEmail(s1, e, title, body)
      s3 == DispatchTelegram(s2, e, title, body)
  IN DispatchSMS(s3, e, body)

(***************************************************************************)
(* Input monitor                                                           *)
(***************************************************************************)
\* String::replace(find, with): every occurrence, left to right.
RECURSIVE StringReplace(_, _, _)
StringReplace(str, find, with) ==
  IF str = << >> THEN << >>
  ELSE IF Head(str) = find THEN with \o StringReplace(Tail(str), find, with)
  ELSE << Head(str) >> \o StringReplace(Tail(str), find, with)

digitalRead(s, pin) == s.pinLevel[pin]

\* History: a read of input index's pin.  since is the time of the first
\* read of the current run of reads that returned the same level.
Sampled(s, index, level) ==
  LET h == s.hist[index]
      s1 == Emit(s, "samples", [input |-> index, level |-> level, at |-> s.now])
  IN IF h.sampled /\ h.level = level THEN s1
     ELSE [s1 EXCEPT !.hist[index].sampled = TRUE,
                     !.hist[index].level = level,
                     !.hist[index].since = s.now]

\* Which edge notifies and with which template (the momentary/toggle branch).
ShouldNotify_Always(input) == TRUE

ShouldNotify(input) ==
  IF input.momentary_mode THEN input.currentState = HIGH ELSE TRUE

EdgeMessage_Swapped(input) ==
  IF input.momentary_mode THEN input.message_on
  ELSE IF input.currentState = HIGH THEN input.message_off ELSE input.message_on

EdgeMessage(input) ==
  IF input.momentary_mode THEN input.message_on
  ELSE IF input.currentState = HIGH THEN input.message_on ELSE input.message_off

RateLimitPassed(s, input) ==
  s.now - input.lastNotificationTime >= MIN_NOTIFICATION_INTERVAL

DebounceElapsed(s, input) ==
  (s.now - input.lastDebounceTime) > DEBOUNCE_DELAY

\* History kept for an input when one of its edges is confirmed.
EdgeNoted(s, index, notifying, sent) ==
  LET in == s.inputs[index]
      h == s.hist[index]
      pulse == IF ~in.momentary_mode THEN -1
               ELSE IF in.currentState = HIGH THEN (IF sent THEN 1 ELSE -1)
               ELSE IF h.pulse >= 0 /\ sent THEN h.pulse + 1 ELSE h.pulse
  IN [s EXCEPT !.hist[index].edgeAt = IF notifying THEN s.now ELSE @,
               !.hist[index].edgeSent = IF notifying THEN sent ELSE @,
               !.hist[index].pulse = pulse]

\* A rate-limited edge that restarts the limiter's interval.
Suppressed_Stamped(s, index) ==
  addLog(Emit([s EXCEPT !.inputs[index].lastNotificationTime = s.now],
              "suppressed",
              [input |-> index, at |-> s.now,
               queueLen |-> Len(s.retryQueue),
               logged |-> Len(s.tr.logged)]),
         "WARNING", << "notification rate limited", index >>)

\* The rate-limited branch of monitorInput: a warning and nothing else.
Suppressed(s, index) ==
  addLog(Emit(s, "suppressed",
              [input |-> index, at |-> s.now,
               queueLen |-> Len(s.retryQueue),
               logged |-> Len(s.tr.logged)]),
         "WARNING", << "notification rate limited", index >>)

monitorInput(s0, e, index) ==
  LET reading == digitalRead(s0, s0.inputs[index].pin)
      sA == Sampled(s0, index, reading)
      s1 == IF reading # sA.inputs[index].currentState
            THEN [sA EXCEPT !.inputs[index].lastDebounceTime = sA.now,
                            !.inputs[index].currentState = reading]
            ELSE sA
      input == s1.inputs[index]
  IN IF DebounceElapsed(s1, input) /\ input.currentState # input.lastState
     THEN LET shouldNotify == ShouldNotify(input)
              passes == shouldNotify /\ RateLimitPassed(s1, input)
              edge == [input |-> index, level |-> input.currentState,
                       from |-> input.lastState, at |-> s1.now,
                       since |-> s1.hist[index].since,
                       momentary |-> input.momentary_mode,
                       notifying |-> shouldNotify, passes |-> passes,
                       previousEdgeAt |-> s1.hist[index].edgeAt,
                       previousEdgeSent |-> s1.hist[index].edgeSent,
                       pulseBefore |-> s1.hist[index].pulse,
                       message_on |-> input.message_on,
                       message_off |-> input.message_off,
                       lastNotificationTime |-> input.lastNotificationTime]
              s2 == Emit(EdgeNoted([s1 EXCEPT !.inputs[index].lastState = input.currentState],
                                   index, shouldNotify, passes),
                         "commits", edge)
          IN IF shouldNotify
             THEN IF RateLimitPassed(s2, input)
                  THEN LET timestamp == getFormattedTime(s2)
                           message1 == StringReplace(EdgeMessage(input), PLACEHOLDER, timestamp)
                           message == IF input.include_gps /\ s2.cfg.gps_enabled /\ e.gps # EMPTY
                                      THEN message1 \o << NEWLINE >> \o e.gps
                                      ELSE message1
                           s3 == addLog(s2, "INFO",
                                        << IF input.currentState = HIGH
                                           THEN "Trigger HIGH" ELSE "Trigger LOW", index >>)
                           s4 == Emit(s3, "dispatches",
                                      [input |-> index, title |-> s3.cfg.notification_title,
                                       body |-> message, at |-> s3.now,
                                       timestamp |-> timestamp,
                                       wifiState |-> s3.wifiState,
                                       staUp |-> s3.staUp,
                                       cellular_connected |-> s3.cellular_connected,
                                       cfg |-> s3.cfg,
                                       queueLen |-> Len(s3.retryQueue),
                                       queuedBefore |-> Len(s3.tr.queued),
                                       sendsBefore |-> Len(s3.tr.sends)])
                           s5 == sendNotifications(s4, e, s4.cfg.notification_title, message)
                       IN [s5 EXCEPT !.inputs[index].lastNotificationTime = s5.now]
                  ELSE Suppressed(s2, index)
             ELSE s2
     ELSE s1

(***************************************************************************)
(* WiFi link state machine                                                 *)
(***************************************************************************)
\* WiFi.mode(WIFI_AP) leaves the station unassociated.
startAccessPoint(s) ==
  [s EXCEPT !.staUp = FALSE, !.apMode = TRUE, !.wifiState = "WIFI_CONNECTED"]

connectWiFiNonBlocking(s) ==
  Emit([s EXCEPT !.wifiState = "WIFI_CONNECTING", !.wifiConnectStart = s.now,
                 !.apMode = FALSE],
       "connects", [ssid |-> s.cfg.wifi_ssid, at |-> s.now])

updateWiFiConnection(s) ==
  IF s.apMode THEN s
  ELSE IF s.wifiState = "WIFI_CONNECTING"
  THEN IF s.staUp
       THEN addLog([s EXCEPT !.wifiState = "WIFI_CONNECTED"],
                   "SUCCESS", << "WiFi connected", 0 >>)
       ELSE IF s.now - s.wifiConnectStart > WIFI_TIMEOUT
       THEN startAccessPoint(
              addLog([s EXCEPT !.wifiState = "WIFI_FAILED"],
                     "ERROR", << "WiFi connection timeout", 0 >>))
       ELSE s
  ELSE s

\* The wait loop of the inline reconnect: the attempts made when it ends.
\* The station is associated once assocAfter polls have been made (-1:
\* never).
RECURSIVE WaitForAssociation(_, _)
WaitForAssociation(attempts, assocAfter) ==
  IF (assocAfter >= 0 /\ attempts >= assocAfter) \/ ~(attempts < RECONNECT_ATTEMPTS)
  THEN attempts
  ELSE WaitForAssociation(attempts + 1, assocAfter)

\* e.reconnect = -1: the station never associates during the wait loop;
\* otherwise it associates after e.reconnect polls of 500 ms.
checkAndReconnectWiFi(s, e) ==
  IF s.apMode THEN s
  ELSE IF s.now - s.lastWiFiCheck < WIFI_CHECK_INTERVAL THEN s
  ELSE LET s1 == [s EXCEPT !.lastWiFiCheck = s.now]
       IN IF ~s1.staUp
          THEN LET s2 == connectWiFiNonBlocking(
                           addLog(s1, "WARNING", << "WiFi disconnected", 0 >>))
                   polls == WaitForAssociation(0, e.reconnect)
                   up == e.reconnect >= 0 /\ polls >= e.reconnect
                   s3 == [s2 EXCEPT !.now = @ + polls * RECONNECT_POLL_MS,
                                    !.staUp = up]
                   s4 == Emit(s3, "waits",
                              WaitEvent(s3, "reconnect",
                                        RECONNECT_ATTEMPTS * RECONNECT_POLL_MS,
                                        polls * RECONNECT_POLL_MS, ~up, up))
               IN IF s4.staUp
                  THEN addLog(s4, "SUCCESS", << "WiFi reconnected", 0 >>)
                  ELSE s4
          ELSE s1

(***************************************************************************)
(* loop()                                                                  *)
(***************************************************************************)
\* History: a phase of loop() that the iteration reaches.
Phase(name, index) == [name |-> name, index |-> index]

RECURSIVE MonitorFrom(_, _, _)
MonitorFrom(s, e, i) ==
  IF i >= MAX_INPUTS THEN s
  ELSE IF s.inputs[i].enabled
       THEN MonitorFrom(monitorInput(Emit(s, "phases", Phase("input", i)), e, i),
                        e, i + 1)
       ELSE MonitorFrom(s, e, i + 1)

\* The deferred operations with a save that leaves its flag set.
DeferredOperations_KeepsFlag(s) ==
  LET s1 == IF s.needs_save_prefs
            THEN LET a == addLog(Emit([s EXCEPT !.now = @ + SAVE_DELAY_MS],
                                      "phases", Phase("save", 0)),
                                 "INFO", << "Saving preferences to flash", 0 >>)
                 IN [a EXCEPT !.tr.saves = @ + 1]
            ELSE s
  IN IF s1.needs_time_update
     THEN addLog(Emit([s1 EXCEPT !.needs_time_update = FALSE,
                                 !.now = @ + SAVE_DELAY_MS],
                      "phases", Phase("time", 0)),
                 "INFO", << "Updating time configuration", 0 >>)
     ELSE s1

\* The deferred operations: savePreferences, then configTime.
DeferredOperations(s) ==
  LET s1 == IF s.needs_save_prefs
            THEN LET a == addLog(Emit([s EXCEPT !.needs_save_prefs = FALSE,
                                                !.now = @ + SAVE_DELAY_MS],
                                      "phases", Phase("save", 0)),
                                 "INFO", << "Saving preferences to flash", 0 >>)
                 IN [a EXCEPT !.tr.saves = @ + 1]
            ELSE s
  IN IF s1.needs_time_update
     THEN addLog(Emit([s1 EXCEPT !.needs_time_update = FALSE,
                                 !.now = @ + SAVE_DELAY_MS],
                      "phases", Phase("time", 0)),
                 "INFO", << "Updating time configuration", 0 >>)
     ELSE s1

\* The WiFi link polling, with the health check and the retries that
\* follow it while the link state is connected.
LinkPolling(s, e) ==
  LET s2 == updateWiFiConnection(Emit(s, "phases", Phase("wifi", 0)))
  IN IF s2.wifiState = "WIFI_CONNECTED"
     THEN processRetryQueue(checkAndReconnectWiFi(s2, e), e)
     ELSE s2

\* updateGPS and updateBMP180 (their readings are part of e).
SensorRefresh(s) ==
  LET s1 == IF s.cfg.gps_enabled /\ s.cfg.board_type = BOARD_SIM7670G
            THEN Emit(s, "phases", Phase("gps", 0)) ELSE s
  IN IF s1.cfg.bmp180_enabled /\ s1.cfg.bmp180_initialized
     THEN Emit(s1, "phases", Phase("sensor", 0)) ELSE s1

\* loop() checking the inputs before it polls the link and the sensors.
LoopAfterClient_InputsFirst(s, e) ==
  LET s1 == DeferredOperations(s)
  IN IF s1.apMode THEN s1
     ELSE SensorRefresh(LinkPolling(MonitorFrom(s1, e, 0), e))

\* loop() after server.handleClient().
LoopAfterClient(s, e) ==
  LET s1 == DeferredOperations(s)
  IN IF s1.apMode THEN s1
     ELSE MonitorFrom(SensorRefresh(LinkPolling(s1, e)), e, 0)

(***************************************************************************)
(* Web handlers served by server.handleClient()                            *)
(***************************************************************************)
NoArg == "<no arg>"
NoInt == -1
NoText == << Lit(NoArg) >>

\* History kept for input i by a save: whether the save disabled it with a
\* transition pending (currentState # lastState) and which level was
\* pending, and when a save last read the pin into lastState.
SaveNoted(s, old, i, read) ==
  LET disabling == old.enabled /\ ~s.inputs[i].enabled
  IN [s EXCEPT !.hist[i].parked =
                  IF disabling THEN old.currentState # old.lastState ELSE @,
               !.hist[i].parkedLevel = IF disabling THEN old.currentState ELSE @,
               !.hist[i].armedAt = IF read THEN s.now ELSE @]

\* A save that enables an input without reading its pin into lastState.
SaveInput_NoRearm(s, f, i) ==
  LET old == s.inputs[i]
      wasEnabled == old.enabled
      oldPin == old.pin
      newPin == f.pin
      pinChanged == newPin # NoInt /\ newPin >= 0 /\ newPin <= 48 /\ newPin # oldPin
      a == [old EXCEPT !.enabled = f.en,
                       !.pin = IF pinChanged THEN newPin ELSE @,
                       !.lastState = IF pinChanged /\ f.en
                                     THEN digitalRead(s, newPin) ELSE @,
                       !.momentary_mode = IF f.mode # NoArg
                                          THEN f.mode = "momentary" ELSE @,
                       !.message_on = IF f.on # NoText THEN f.on ELSE @,
                       !.message_off = IF f.off # NoText THEN f.off ELSE @,
                       !.include_gps = f.gps]
      b == a
      read == (pinChanged /\ f.en) \/ (~wasEnabled /\ a.enabled)
      s1 == SaveNoted([s EXCEPT !.inputs[i] = b], old, i, read)
  IN IF pinChanged /\ f.en
     THEN [s1 EXCEPT !.hist[i].sampled = TRUE,
                     !.hist[i].level = digitalRead(s, b.pin),
                     !.hist[i].since = s.now]
     ELSE s1

\* The per-input part of handleSave for input i; f is the submitted form of
\* that input (NoArg/NoInt/NoText: the argument is absent).
SaveInput(s, f, i) ==
  LET old == s.inputs[i]
      wasEnabled == old.enabled
      oldPin == old.pin
      newPin == f.pin
      pinChanged == newPin # NoInt /\ newPin >= 0 /\ newPin <= 48 /\ newPin # oldPin
      a == [old EXCEPT !.enabled = f.en,
                       !.pin = IF pinChanged THEN newPin ELSE @,
                       !.lastState = IF pinChanged /\ f.en
                                     THEN digitalRead(s, newPin) ELSE @,
                       !.momentary_mode = IF f.mode # NoArg
                                          THEN f.mode = "momentary" ELSE @,
                       !.message_on = IF f.on # NoText THEN f.on ELSE @,
                       !.message_off = IF f.off # NoText THEN f.off ELSE @,
                       !.include_gps = f.gps]
      b == IF ~wasEnabled /\ a.enabled
           THEN [a EXCEPT !.lastState = digitalRead(s, a.pin)] ELSE a
      read == (pinChanged /\ f.en) \/ (~wasEnabled /\ a.enabled)
      s1 == SaveNoted([s EXCEPT !.inputs[i] = b], old, i, read)
  IN IF read
     THEN [s1 EXCEPT !.hist[i].sampled = TRUE,
                     !.hist[i].level = digitalRead(s, b.pin),
                     !.hist[i].since = s.now]
     ELSE s1

RECURSIVE SaveInputsFrom(_, _, _)
SaveInputsFrom(s, form, i) ==
  IF i >= MAX_INPUTS THEN s
  ELSE SaveInputsFrom(SaveInput(s, form.inputs[i], i), form, i + 1)

Arg(value, current) == IF value = NoArg THEN current ELSE value
IntArg(value, current) == IF value = NoInt THEN current ELSE value

handleSave(s, form) ==
  LET c == s.cfg
      c1 == [c EXCEPT
               !.wifi_ssid = Arg(form.wifi_ssid, @),
               !.pushbullet_token = Arg(form.pb_token, @),
               !.pushbullet_enabled = form.pb_enabled,
               !.smtp_email = Arg(form.smtp_email, @),
               !.recipient_email = Arg(form.recipient_email, @),
               !.email_enabled = form.email_enabled,
               !.telegram_token = Arg(form.tg_token, @),
               !.telegram_chat_id = Arg(form.tg_chat, @),
               !.telegram_enabled = form.tg_enabled,
               !.notification_title = Arg(form.notif_title, @),
               !.gps_enabled = form.gps_en,
               !.cellular_enabled = form.cell_en,
               !.pushbullet_conn_mode = IntArg(form.pb_conn_mode, @),
               !.email_conn_mode = IntArg(form.email_conn_mode, @),
               !.telegram_conn_mode = IntArg(form.tg_conn_mode, @),
               !.sms_conn_mode = IntArg(form.sms_conn_mode, @),
               !.sms_enabled = form.sms_en,
               !.sms_phone_number = Arg(form.sms_phone, @),
               !.include_bmp180_in_notifications = form.bmp180_notif,
               !.gmt_offset = IntArg(form.gmt_offset, @),
               !.daylight_offset = IntArg(form.day_offset, @)]
      timeChanged == c1.gmt_offset # c.gmt_offset
                     \/ c1.daylight_offset # c.daylight_offset
      s0 == [s EXCEPT !.cfg = c1,
                      !.needs_time_update = IF timeChanged THEN TRUE ELSE @]
      s1 == SaveInputsFrom(s0, form, 0)
  IN [s1 EXCEPT !.needs_save_prefs = TRUE, !.tr.submitted = @ + 1]

\* The form as the settings page renders it: every field holds the current
\* setting, so submitting it unchanged changes nothing.
FormOf(s) ==
  [ wifi_ssid |-> s.cfg.wifi_ssid,
    pb_token |-> s.cfg.pushbullet_token, pb_enabled |-> s.cfg.pushbullet_enabled,
    smtp_email |-> s.cfg.smtp_email, recipient_email |-> s.cfg.recipient_email,
    email_enabled |-> s.cfg.email_enabled,
    tg_token |-> s.cfg.telegram_token, tg_chat |-> s.cfg.telegram_chat_id,
    tg_enabled |-> s.cfg.telegram_enabled,
    notif_title |-> s.cfg.notification_title,
    gps_en |-> s.cfg.gps_enabled, cell_en |-> s.cfg.cellular_enabled,
    pb_conn_mode |-> s.cfg.pushbullet_conn_mode,
    email_conn_mode |-> s.cfg.email_conn_mode,
    tg_conn_mode |-> s.cfg.telegram_conn_mode,
    sms_conn_mode |-> s.cfg.sms_conn_mode,
    sms_en |-> s.cfg.sms_enabled, sms_phone |-> s.cfg.sms_phone_number,
    bmp180_notif |-> s.cfg.include_bmp180_in_notifications,
    gmt_offset |-> s.cfg.gmt_offset, day_offset |-> s.cfg.daylight_offset,
    inputs |-> [i \in Inputs |->
                  [ en |-> s.inputs[i].enabled, pin |-> s.inputs[i].pin,
                    mode |-> IF s.inputs[i].momentary_mode THEN "momentary" ELSE "toggle",
                    on |-> s.inputs[i].message_on, off |-> s.inputs[i].message_off,
                    gps |-> s.inputs[i].include_gps ]] ]

\* handleCellularRefresh: AT+CGACT? answers whether the PDP context is up.
handleCellularRefresh(s, contextUp) ==
  IF ~s.cfg.cellular_enabled \/ ~s.cfg.modem_initialized THEN s
  ELSE [s EXCEPT !.cellular_connected = contextUp]

(***************************************************************************)
(* setup(): the state in which loop() first runs.                          *)
(*   t      millis() at the end of setup                                   *)
(*   lv     the pin levels                                                 *)
(*   c      the settings loaded by loadPreferences                         *)
(*   ic     the input settings loaded by loadPreferences                   *)
(*   cell   connectCellular() succeeded                                    *)
(*   calls  addLog calls made by setup (4 stands for 4 or more)            *)
(***************************************************************************)
BootInput(lv, ici) ==
  [ pin |-> ici.pin, enabled |-> ici.enabled,
    momentary_mode |-> ici.momentary_mode, include_gps |-> ici.include_gps,
    message_on |-> ici.message_on, message_off |-> ici.message_off,
    lastState |-> IF ici.enabled THEN lv[ici.pin] ELSE LOW,
    currentState |-> LOW, lastDebounceTime |-> 0, lastNotificationTime |-> 0 ]

Boot(t, lv, c, ic, cell, calls, clock) ==
  LET s0 == [ now |-> t, pinLevel |-> lv, staUp |-> FALSE, clockSet |-> clock,
              wifiState |-> "WIFI_IDLE", apMode |-> FALSE,
              wifiConnectStart |-> 0, lastWiFiCheck |-> 0,
              cellular_connected |-> (c.cellular_enabled /\ c.modem_initialized /\ cell),
              cfg |-> c,
              inputs |-> [i \in Inputs |-> BootInput(lv, ic[i])],
              retryQueue |-> << >>,
              logBuffer |-> [k \in 0 .. (MAX_LOG_ENTRIES - 1) |-> NoEntry],
              logIndex |-> 0, logCount |-> 0,
              earlyBoot |-> ~(calls > EARLY_BOOT_CALLS), callCount |-> calls,
              needs_save_prefs |-> FALSE, needs_time_update |-> FALSE,
              ticks |-> 0, tr |-> NoTrace,
              hist |-> [i \in Inputs |->
                          [ sampled |-> ic[i].enabled,
                            level |-> IF ic[i].enabled THEN lv[ic[i].pin] ELSE LOW,
                            since |-> t, edgeAt |-> -1, edgeSent |-> FALSE,
                            pulse |-> -1, parked |-> FALSE, parkedLevel |-> LOW,
                            armedAt |-> -1 ]] ]
  IN IF c.wifi_ssid = "" THEN startAccessPoint(s0) ELSE connectWiFiNonBlocking(s0)

\* setup() in which connectCellular runs (at t0) and gets the answers m of
\* the modem; the WiFi connection is started when it has returned.
SetupCellular(t0, lv, c, ic, m, calls, clock) ==
  LET pre == [Boot(t0, lv, c, ic, FALSE, calls, clock) EXCEPT !.tr = NoTrace]
      r == connectCellular(pre, m)
  IN [Boot(r.s.now, lv, c, ic, r.ok, calls, clock)
        EXCEPT !.tr.waits = r.s.tr.waits]

Start(s) ==
  /\ now = s.now
  /\ pinLevel = s.pinLevel
  /\ staUp = s.staUp
  /\ clockSet = s.clockSet
  /\ wifiState = s.wifiState
  /\ apMode = s.apMode
  /\ wifiConnectStart = s.wifiConnectStart
  /\ lastWiFiCheck = s.lastWiFiCheck
  /\ cellular_connected = s.cellular_connected
  /\ cfg = s.cfg
  /\ inputs = s.inputs
  /\ retryQueue = s.retryQueue
  /\ logBuffer = s.logBuffer
  /\ logIndex = s.logIndex
  /\ logCount = s.logCount
  /\ earlyBoot = s.earlyBoot
  /\ callCount = s.callCount
  /\ needs_save_prefs = s.needs_save_prefs
  /\ needs_time_update = s.needs_time_update
  /\ ticks = s.ticks
  /\ tr = s.tr
  /\ hist = s.hist

(***************************************************************************)
(* Steps                                                                   *)
(***************************************************************************)
\* dt milliseconds after the previous iteration, loop() runs once more.
Entered(dt) ==
  [State EXCEPT !.now = @ + dt, !.ticks = @ + 1,
                !.tr = [NoTrace EXCEPT !.entered = now + dt,
                                       !.phases = << Phase("keepalive", 0),
                                                     Phase("client", 0) >>]]

\* loop() with no web request pending.
Loop(dt, e) == Commit(LoopAfterClient(Entered(dt), e))

\* loop() in which handleClient serves a submission of the settings form.
LoopSave(dt, form, e) == Commit(LoopAfterClient(handleSave(Entered(dt), form), e))

\* loop() in which handleClient serves /logs; page is what it sends.
LogsServed(dt) == [Entered(dt) EXCEPT !.tr.page = handleLogs(Entered(dt))]

LoopLogs(dt, e) == Commit(LoopAfterClient(LogsServed(dt), e))

\* loop() in which handleClient serves /cellular/refresh.
LoopCellularRefresh(dt, contextUp, e) ==
  /\ cfg.cellular_enabled /\ cfg.modem_initialized
  /\ Commit(LoopAfterClient(handleCellularRefresh(Entered(dt), contextUp), e))

\* The level of a GPIO changes.
PinChange(p) ==
  /\ pinLevel' = [pinLevel EXCEPT ![p] = ~@]
  /\ UNCHANGED << now, staUp, clockSet, wifiState, apMode, wifiConnectStart,
                  lastWiFiCheck, cellular_connected, cfg, inputs, retryQueue,
                  logBuffer, logIndex, logCount, earlyBoot, callCount,
                  needs_save_prefs, needs_time_update, ticks, tr, hist >>

\* The station associates with the access point / loses it.
LinkUp ==
  /\ ~apMode /\ ~staUp
  /\ wifiState \in {"WIFI_CONNECTING", "WIFI_CONNECTED"}
  /\ staUp' = TRUE
  /\ UNCHANGED << now, pinLevel, clockSet, wifiState, apMode, wifiConnectStart,
                  lastWiFiCheck, cellular_connected, cfg, inputs, retryQueue,
                  logBuffer, logIndex, logCount, earlyBoot, callCount,
                  needs_save_prefs, needs_time_update, ticks, tr, hist >>

LinkDown ==
  /\ staUp
  /\ staUp' = FALSE
  /\ UNCHANGED << now, pinLevel, clockSet, wifiState, apMode, wifiConnectStart,
                  lastWiFiCheck, cellular_connected, cfg, inputs, retryQueue,
                  logBuffer, logIndex, logCount, earlyBoot, callCount,
                  needs_save_prefs, needs_time_update, ticks, tr, hist >>

(***************************************************************************)
(* Settings and environments used by the specifications                    *)
(***************************************************************************)
WiFiServices == {"pushbullet", "email", "telegram"}

DefaultOn == << Lit("ON at"), PLACEHOLDER >>
DefaultOff == << Lit("OFF at"), PLACEHOLDER >>

\* The compiled-in defaults of the globals, with WiFi credentials stored.
DefaultCfg ==
  [ wifi_ssid |-> "ssid", notification_title |-> "Device Status Alert",
    pushbullet_enabled |-> FALSE, pushbullet_token |-> "",
    pushbullet_conn_mode |-> CONN_WIFI_ONLY,
    email_enabled |-> FALSE, smtp_email |-> "", recipient_email |-> "",
    email_conn_mode |-> CONN_WIFI_ONLY,
    telegram_enabled |-> FALSE, telegram_token |-> "", telegram_chat_id |-> "",
    telegram_conn_mode |-> CONN_WIFI_ONLY,
    sms_enabled |-> FALSE, sms_phone_number |-> "", sms_conn_mode |-> CONN_CELL_ONLY,
    cellular_enabled |-> FALSE, modem_initialized |-> FALSE,
    gps_enabled |-> FALSE, board_type |-> BOARD_GENERIC,
    bmp180_enabled |-> FALSE,
    include_bmp180_in_notifications |-> TRUE, bmp180_initialized |-> FALSE,
    gmt_offset |-> 0, daylight_offset |-> 0 ]

DefaultPin(i) == CASE i = 0 -> 21 [] i = 1 -> 38 [] i = 2 -> 39 [] OTHER -> 40

DefaultInputs ==
  [i \in Inputs |->
     [ pin |-> DefaultPin(i), enabled |-> (i = 0), momentary_mode |-> FALSE,
       include_gps |-> FALSE, message_on |-> DefaultOn, message_off |-> DefaultOff ]]

AllLow == [p \in Pins |-> LOW]

\* What the environment may answer in one step.
TimedAnswers(oks, cellOks, smsOks, durs, reconnects, atDelays) ==
  [ ok : oks, cellOk : cellOks, smsOk : smsOks, dur : durs,
    smtpConnects : {TRUE}, gps : {EMPTY}, bmp : {EMPTY}, reconnect : reconnects,
    atDelay : atDelays ]

\* The same with a modem that answers every command at once.
Answers(oks, cellOks, smsOks, durs, reconnects) ==
  TimedAnswers(oks, cellOks, smsOks, durs, reconnects, {0})

(***************************************************************************)
(* SpecRetry: one toggle input, Pushbullet over WiFi only, iterations one  *)
(* RETRY_DELAY apart; the requests may fail or succeed.                    *)
(***************************************************************************)
BootLate == 6000
RetryStep == 60000
MaxTicksRetry == 14
MaxQueue == 2
MaxLogged == 7

RetryCfg ==
  [DefaultCfg EXCEPT !.pushbullet_enabled = TRUE, !.pushbullet_token = "token"]

RetryAnswers ==
  Answers({f \in [WiFiServices -> BOOLEAN] : f["email"] /\ f["telegram"]},
          {TRUE}, {TRUE}, {0}, {-1})

InitRetry == Start(Boot(BootLate, AllLow, RetryCfg, DefaultInputs, FALSE, 4, FALSE))

LoopRetry ==
  \E e \in RetryAnswers :
    /\ ticks < MaxTicksRetry
    /\ Loop(RetryStep, e)
    /\ Len(retryQueue') <= MaxQueue
    /\ logCount' <= MaxLogged

NextRetry == LoopRetry \/ PinChange(21) \/ LinkUp \/ LinkDown

SpecRetry == InitRetry /\ [][NextRetry]_vars

(***************************************************************************)
(* Claims                                                                  *)
(***************************************************************************)
Range(seq) == {seq[k] : k \in DOMAIN seq}

\* C1: an entry that is erased after a failed retry (so its immediate send
\* and every retry failed) has had exactly 1 + MAX_RETRIES sender calls.
C1_RetryBound ==
  \A x \in Range(tr.erased) : ~x.success => x.entry.attempts = 1 + MAX_RETRIES

RouteStep == 100
MaxTicksRoute == 3

RouteCfgs ==
  { [DefaultCfg EXCEPT
       !.pushbullet_enabled = TRUE, !.pushbullet_token = "token",
       !.email_enabled = TRUE, !.smtp_email = "from", !.recipient_email = "to",
       !.telegram_enabled = TRUE, !.telegram_token = "token",
       !.telegram_chat_id = "chat",
       !.sms_enabled = TRUE, !.sms_phone_number = "+15551234567",
       !.cellular_enabled = TRUE, !.modem_initialized = TRUE,
       !.board_type = BOARD_SIM7670G,
       !.pushbullet_conn_mode = m[1], !.email_conn_mode = m[2],
       !.telegram_conn_mode = m[3], !.sms_conn_mode = m[4]]
    : m \in ConnModes \X ConnModes \X ConnModes \X ConnModes }

RouteAnswers == Answers([WiFiServices -> BOOLEAN], BOOLEAN, BOOLEAN, {0}, {-1})

InitRoute ==
  \E c \in RouteCfgs, cell \in BOOLEAN :
    Start(Boot(BootLate, AllLow, c, DefaultInputs, cell, 4, FALSE))

LoopRoute ==
  \E e \in RouteAnswers :
    /\ ticks < MaxTicksRoute
    /\ Loop(RouteStep, e)

NextRoute == LoopRoute \/ PinChange(21) \/ LinkUp \/ LinkDown

SpecRoute == InitRoute /\ [][NextRoute]_vars

\* The sender calls and the queueRetry calls made by the k-th dispatch of
\* the step.
SendsOfDispatch(k) ==
  LET from == tr.dispatches[k].sendsBefore + 1
      to == IF k < Len(tr.dispatches) THEN tr.dispatches[k + 1].sendsBefore
            ELSE Len(tr.sends)
  IN {tr.sends[j] : j \in from .. to}

QueuedByDispatch(k) ==
  LET from == tr.dispatches[k].queuedBefore + 1
      to == IF k < Len(tr.dispatches) THEN tr.dispatches[k + 1].queuedBefore
            ELSE Len(tr.queued)
  IN {j \in from .. to : TRUE}

AllServices == {"pushbullet", "email", "telegram", "sms"}

\* The channel is enabled and has its credentials.
Configured(c, svc) ==
  CASE svc = "pushbullet" -> c.pushbullet_enabled /\ c.pushbullet_token # ""
    [] svc = "email" -> c.email_enabled /\ c.smtp_email # "" /\ c.recipient_email # ""
    [] svc = "telegram" -> c.telegram_enabled /\ c.telegram_token # "" /\ c.telegram_chat_id # ""
    [] OTHER -> c.sms_enabled /\ c.sms_phone_number # ""

ModeOf(c, svc) ==
  CASE svc = "pushbullet" -> c.pushbullet_conn_mode
    [] svc = "email" -> c.email_conn_mode
    [] svc = "telegram" -> c.telegram_conn_mode
    [] OTHER -> c.sms_conn_mode

\* The routing table of the specification.
ChooseLink(mode, wifiUp, cellularUp) ==
  CASE mode = CONN_WIFI_ONLY -> IF wifiUp THEN "wifi" ELSE "none"
    [] mode = CONN_CELL_ONLY -> IF cellularUp THEN "cell" ELSE "none"
    [] OTHER -> IF wifiUp THEN "wifi" ELSE IF cellularUp THEN "cell" ELSE "none"

WiFiUpAt(d) == d.wifiState = "WIFI_CONNECTED"

\* C3: every send of a dispatch that was attempted (on the WiFi path or on
\* the cellular path) and failed appends exactly one entry {service, title,
\* body, retryCount = 0, retryTime = now + RETRY_DELAY} to retryQueue.
C3_FailedSendQueued ==
  \A k \in DOMAIN tr.dispatches :
    \A x \in SendsOfDispatch(k) :
      ~x.ok =>
        Cardinality({j \in QueuedByDispatch(k) :
                       /\ tr.queued[j].entry.service = x.service
                       /\ tr.queued[j].entry.title = tr.dispatches[k].title
                       /\ tr.queued[j].entry.body = tr.dispatches[k].body
                       /\ tr.queued[j].entry.retryCount = 0
                       /\ tr.queued[j].entry.retryTime = x.at + RETRY_DELAY
                       /\ \E i \in DOMAIN retryQueue :
                            retryQueue[i] = tr.queued[j].entry}) = 1

\* C4: a configured channel for which the routing table yields no link at
\* dispatch time gets no send attempt and no retry entry.
C4_NoLinkNoSend ==
  \A k \in DOMAIN tr.dispatches :
    LET d == tr.dispatches[k] IN
    \A svc \in AllServices :
      ( /\ Configured(d.cfg, svc)
        /\ ChooseLink(ModeOf(d.cfg, svc), WiFiUpAt(d), d.cellular_connected) = "none" )
      => /\ \A x \in SendsOfDispatch(k) : x.service # svc
         /\ \A j \in QueuedByDispatch(k) : tr.queued[j].entry.service # svc

\* C9: a configured channel in WiFiOnly mode is sent once over the WiFi path
\* when WiFi is up, not at all when it is down, and never over cellular.
C9_WiFiOnly ==
  \A k \in DOMAIN tr.dispatches :
    LET d == tr.dispatches[k] IN
    \A svc \in AllServices :
      (Configured(d.cfg, svc) /\ ModeOf(d.cfg, svc) = CONN_WIFI_ONLY)
      => /\ \A x \in SendsOfDispatch(k) : x.service = svc => x.path = "wifi"
         /\ WiFiUpAt(d) => \E x \in SendsOfDispatch(k) : x.service = svc
         /\ ~WiFiUpAt(d) => \A x \in SendsOfDispatch(k) : x.service # svc

\* C10: a configured Pushbullet, Telegram or SMS channel in CellularOnly
\* mode is sent over the cellular path when cellular is up, not at all when
\* it is down, and never over the WiFi path.
C10_CellularOnly ==
  \A k \in DOMAIN tr.dispatches :
    LET d == tr.dispatches[k] IN
    \A svc \in {"pushbullet", "telegram", "sms"} :
      (Configured(d.cfg, svc) /\ ModeOf(d.cfg, svc) = CONN_CELL_ONLY)
      => /\ \A x \in SendsOfDispatch(k) : x.service = svc => x.path = "cell"
         /\ d.cellular_connected => \E x \in SendsOfDispatch(k) : x.service = svc
         /\ ~d.cellular_connected => \A x \in SendsOfDispatch(k) : x.service # svc

(***************************************************************************)
(* SpecInput: input 1 on pin 21 in toggle or momentary mode, Pushbullet    *)
(* over WiFi; the pin may change between any two iterations, which come    *)
(* a fraction of DEBOUNCE_DELAY or half a MIN_NOTIFICATION_INTERVAL apart; *)
(* the settings page may disable or enable the input or switch its mode.   *)
(***************************************************************************)
BootEarly == 1500
InputStepShort == 30
InputStepLong == 2500
MaxTicksInput == 6
MaxSaveTick == 2

InputSettings(momentary) ==
  [DefaultInputs EXCEPT ![0].momentary_mode = momentary]

PinHigh(p) == [AllLow EXCEPT ![p] = HIGH]

InputAnswers ==
  Answers({f \in [WiFiServices -> BOOLEAN] : f["email"] /\ f["telegram"]},
          {TRUE}, {TRUE}, {0}, {-1})

\* The settings form with input 1 disabled/enabled or in the other mode.
InputForms(s) ==
  { [FormOf(s) EXCEPT !.inputs[0].en = ~@],
    [FormOf(s) EXCEPT !.inputs[0].mode = IF @ = "toggle" THEN "momentary"
                                         ELSE "toggle"] }

InitInput ==
  \E b \in { << BootEarly, 2, FALSE >>, << BootLate, 4, TRUE >> },
     lv \in { AllLow, PinHigh(21) }, momentary \in BOOLEAN :
    Start(Boot(b[1], lv, RetryCfg, InputSettings(momentary), FALSE, b[2], b[3]))

LoopInput ==
  \E dt \in { InputStepShort, InputStepLong }, e \in InputAnswers :
    /\ ticks < MaxTicksInput
    /\ Loop(dt, e)
    /\ Len(retryQueue') <= MaxQueue

SaveInputSettings ==
  \E form \in InputForms(State), e \in InputAnswers :
    /\ ticks < MaxSaveTick
    /\ LoopSave(InputStepShort, form, e)

NextInput == LoopInput \/ SaveInputSettings \/ PinChange(21) \/ LinkUp

SpecInput == InitInput /\ [][NextInput]_vars

\* The dispatches, in this step, of the input whose edge c was confirmed.
DispatchesOf(c) ==
  {d \in Range(tr.dispatches) : d.input = c.input /\ d.at = c.at}

SuppressedOf(c) ==
  {x \in Range(tr.suppressed) : x.input = c.input /\ x.at = c.at}

\* C5: of two confirmed notifying edges of one input less than
\* MIN_NOTIFICATION_INTERVAL apart exactly one is dispatched: the first is,
\* the second is suppressed, a WARNING entry is logged for it, and nothing
\* is queued.
C5_RateLimit ==
  \A c \in Range(tr.commits) :
    ( /\ c.notifying
      /\ c.previousEdgeAt >= 0
      /\ c.at - c.previousEdgeAt < MIN_NOTIFICATION_INTERVAL )
    => /\ c.previousEdgeSent
       /\ DispatchesOf(c) = {}
       /\ SuppressedOf(c) # {}
       /\ \E l \in Range(tr.logged) :
            l.level = "WARNING" /\ l.message[2] = c.input
       /\ Len(tr.commits) = 1 => tr.queued = << >>

\* C6: lastState changes, and a dispatch is made, only when the level read
\* from the pin has stayed equal to the pending state for more than
\* DEBOUNCE_DELAY.
C6_Debounce ==
  /\ \A c \in Range(tr.commits) : c.at - c.since > DEBOUNCE_DELAY
  /\ \A d \in Range(tr.dispatches) :
       \E c \in Range(tr.commits) :
         c.input = d.input /\ c.at = d.at /\ c.at - c.since > DEBOUNCE_DELAY

\* The formatted current time of an iteration that read the clock at t.
FormattedAt(t) ==
  IF clockSet THEN [k |-> "time", v |-> t \div 1000] ELSE Lit("Time unavailable")

\* body is template with every placeholder replaced by stamp, possibly
\* followed by a line with the GPS location.
BuiltFrom(body, template, stamp) ==
  LET expected == [k \in 1 .. Len(template) |->
                     IF template[k] = PLACEHOLDER THEN stamp ELSE template[k]]
  IN /\ Len(body) >= Len(expected)
     /\ SubSeq(body, 1, Len(expected)) = expected
     /\ Len(body) > Len(expected) => body[Len(expected) + 1] = NEWLINE

RateLimited(c) == c.at - c.lastNotificationTime < MIN_NOTIFICATION_INTERVAL

\* C7: in momentary mode a confirmed HIGH->LOW edge is never dispatched; a
\* confirmed LOW->HIGH edge is dispatched once with the ON template unless
\* it is rate-limited; a dispatched HIGH pulse and its release together
\* make exactly one dispatch.
C7_Momentary ==
  \A c \in Range(tr.commits) :
    c.momentary =>
      /\ c.level # c.from
      /\ c.level = LOW =>
           /\ DispatchesOf(c) = {}
           /\ c.pulseBefore >= 0 => c.pulseBefore = 1 /\ hist[c.input].pulse = 1
      /\ c.level = HIGH =>
           IF RateLimited(c)
           THEN DispatchesOf(c) = {} /\ hist[c.input].pulse = -1
           ELSE /\ Cardinality(DispatchesOf(c)) = 1
                /\ \A d \in DispatchesOf(c) :
                     BuiltFrom(d.body, c.message_on, FormattedAt(d.at))
                /\ hist[c.input].pulse = 1

C7_Witness ==
  \E c \in Range(tr.commits) :
    /\ c.momentary /\ c.level = LOW /\ c.pulseBefore = 1
    /\ c.message_on # c.message_off

\* C8: in toggle mode every confirmed edge that passes rate limiting is
\* dispatched with message_on when the new level is HIGH and message_off
\* when it is LOW, each {timestamp} replaced by the formatted current time.
C8_Toggle ==
  \A c \in Range(tr.commits) :
    (~c.momentary /\ ~RateLimited(c)) =>
      /\ Cardinality(DispatchesOf(c)) = 1
      /\ \A d \in DispatchesOf(c) :
           /\ BuiltFrom(d.body,
                        IF c.level = HIGH THEN c.message_on ELSE c.message_off,
                        FormattedAt(d.at))
           /\ \A k \in DOMAIN d.body : d.body[k] # PLACEHOLDER

C8_Witness ==
  /\ clockSet
  /\ \E c \in Range(tr.commits) :
       /\ ~c.momentary /\ ~RateLimited(c) /\ c.level = LOW
       /\ c.previousEdgeSent
       /\ PLACEHOLDER \in Range(c.message_off)
       /\ c.message_on # c.message_off

\* The sends of service svc on path made by the k-th dispatch of the step.
SendsOn(k, svc, path) ==
  {x \in SendsOfDispatch(k) : x.service = svc /\ x.path = path}

\* C11: a configured Pushbullet or Telegram channel in WiFiWithCellularBackup
\* mode is sent once over WiFi when the WiFi link state is Connected, once
\* over the cellular path and not by the WiFi sender when WiFi is not
\* Connected and cellular is up, and not at all when both are down.
C11_BackupRouting ==
  \A k \in DOMAIN tr.dispatches :
    LET d == tr.dispatches[k] IN
    \A svc \in {"pushbullet", "telegram"} :
      (Configured(d.cfg, svc) /\ ModeOf(d.cfg, svc) = CONN_WIFI_CELL_BACKUP)
      => LET link == ChooseLink(CONN_WIFI_CELL_BACKUP, WiFiUpAt(d),
                                d.cellular_connected)
         IN /\ Cardinality(SendsOn(k, svc, "wifi")) = IF link = "wifi" THEN 1 ELSE 0
            /\ Cardinality(SendsOn(k, svc, "cell")) = IF link = "cell" THEN 1 ELSE 0

C11_Witness ==
  \E k \in DOMAIN tr.dispatches :
    /\ Configured(tr.dispatches[k].cfg, "telegram")
    /\ tr.dispatches[k].cfg.telegram_conn_mode = CONN_WIFI_CELL_BACKUP
    /\ ~WiFiUpAt(tr.dispatches[k]) /\ tr.dispatches[k].cellular_connected
    /\ SendsOn(k, "telegram", "cell") # {}

\* C12: Email is never sent over the cellular path; when the routing table
\* gives cellular for a configured Email channel it is sent once over WiFi
\* if the WiFi link state is Connected and is not sent otherwise.
C12_EmailNeverCellular ==
  \A k \in DOMAIN tr.dispatches :
    LET d == tr.dispatches[k] IN
    /\ SendsOn(k, "email", "cell") = {}
    /\ ( /\ Configured(d.cfg, "email")
         /\ ChooseLink(d.cfg.email_conn_mode, WiFiUpAt(d), d.cellular_connected) = "cell" )
       => Cardinality(SendsOn(k, "email", "wifi")) = IF WiFiUpAt(d) THEN 1 ELSE 0

C12_Witness ==
  \E k \in DOMAIN tr.dispatches :
    LET d == tr.dispatches[k] IN
    /\ Configured(d.cfg, "email")
    /\ ChooseLink(d.cfg.email_conn_mode, WiFiUpAt(d), d.cellular_connected) = "cell"
    /\ WiFiUpAt(d)
    /\ SendsOn(k, "email", "wifi") # {}

\* The retries made in the step that has just been taken.
Retried == Range(tr.erased) \cup Range(tr.rescheduled)

\* C13: on every iteration of loop(), whatever the WiFi link state and
\* whether or not the device is in access-point mode, each queue entry whose
\* due time has passed when the iteration starts is retried.
C13_ServicedEveryTick ==
  [][ ticks' = ticks + 1 =>
        \A i \in DOMAIN retryQueue :
          retryQueue[i].retryTime <= tr'.entered =>
            \E x \in Retried' :
              /\ x.entry.service = retryQueue[i].service
              /\ x.entry.title = retryQueue[i].title
              /\ x.entry.body = retryQueue[i].body
              /\ x.entry.attempts = retryQueue[i].attempts + 1 ]_vars

(***************************************************************************)
(* SpecRetryFair: SpecRetry in which loop() keeps being executed.          *)
(***************************************************************************)
\* An iteration of loop() within the horizon; in SpecRetry only LoopRetry
\* changes ticks.
TickRetry == ticks < MaxTicksRetry /\ ticks' = ticks + 1

SpecRetryFair == SpecRetry /\ WF_ticks(TickRetry)

\* An entry queued by LastBornTime has enough iterations ahead of it for
\* every retry the code schedules: MaxTicksRetry minus the three it may have
\* used.
LastBornTime == BootLate + 3 * RetryStep + RECONNECT_ATTEMPTS * RECONNECT_POLL_MS

EarlyQueued == \E r \in Range(retryQueue) : r.born <= LastBornTime

\* C14: while loop() keeps being executed, every entry appended to
\* retryQueue is eventually removed from it, whatever the links do.
C14_EventuallyRemoved == EarlyQueued ~> ~EarlyQueued

\* C15: when processRetryQueue drops an entry whose retries are exhausted,
\* an error entry about that notification's service is added to the log
\* buffer in the same iteration.
C15_ExhaustionLogged ==
  \A x \in Range(tr.erased) :
    ~x.success =>
      \E l \in Range(tr.logged) :
        l.level = "ERROR" /\ l.message[1] = x.entry.service

(***************************************************************************)
(* SpecLog: the device boots without WiFi credentials into access-point    *)
(* mode; each iteration serves a settings save, which logs one entry, or   *)
(* the log page within the same millisecond.  In this specification        *)
(* tr.logged is not reset: it is the history of all entries stored since   *)
(* boot.                                                                   *)
(***************************************************************************)
LogStep == 1000
MaxTicksLog == 106

LogCfg == [DefaultCfg EXCEPT !.wifi_ssid = ""]

\* setup() in access-point mode has made three addLog calls.
InitLog == Start(Boot(BootEarly, AllLow, LogCfg, DefaultInputs, FALSE, 3, TRUE))

KeepLog(s) == [s EXCEPT !.tr.logged = tr.logged \o @]

LogAnswers == Answers({[svc \in WiFiServices |-> TRUE]}, {TRUE}, {TRUE}, {0}, {-1})

LogSave ==
  \E e \in LogAnswers :
    /\ ticks < MaxTicksLog
    /\ Commit(KeepLog(LoopAfterClient(
                handleSave(Entered(LogStep), FormOf(Entered(LogStep))), e)))

LogView ==
  \E e \in LogAnswers :
    /\ ticks < MaxTicksLog
    /\ Commit(KeepLog(LoopAfterClient(LogsServed(0), e)))

NextLog == LogSave \/ LogView

SpecLog == InitLog /\ [][NextLog]_vars

Min(a, b) == IF a < b THEN a ELSE b

\* The k-th most recently stored entry, k = 1 for the newest.
Recent(k) == tr.logged[Len(tr.logged) - k + 1]

\* C16: logCount never exceeds MAX_LOG_ENTRIES and logIndex stays within
\* 0 .. MAX_LOG_ENTRIES - 1; the buffer holds the most recently stored
\* entries, all of them up to MAX_LOG_ENTRIES and exactly the newest
\* MAX_LOG_ENTRIES after that, each new entry in the slot of the oldest.
C16_LogRing ==
  /\ logCount <= MAX_LOG_ENTRIES
  /\ logIndex \in 0 .. (MAX_LOG_ENTRIES - 1)
  /\ logCount = Min(Len(tr.logged), MAX_LOG_ENTRIES)
  /\ logIndex = Len(tr.logged) % MAX_LOG_ENTRIES
  /\ \A k \in 1 .. logCount :
       logBuffer[(logIndex - k + MAX_LOG_ENTRIES) % MAX_LOG_ENTRIES] = Recent(k)
  /\ \A k \in 1 .. (logCount - 1) : Recent(k) # Recent(k + 1)

C16_Witness ==
  /\ Len(tr.logged) > MAX_LOG_ENTRIES + 1
  /\ logCount = MAX_LOG_ENTRIES
  /\ logIndex = 2

\* C17: the page of handleLogs lists the retained entries newest first:
\* the most recently stored entry comes first, the oldest retained last.
C17_NewestFirst ==
  \A j \in DOMAIN tr.page :
    /\ Len(tr.page) = Min(Len(tr.logged), MAX_LOG_ENTRIES)
    /\ tr.page[j] = Recent(j)

(***************************************************************************)
(* SpecWiFi: the WiFi link state machine.  Boot with or without a stored   *)
(* SSID; iterations half a WIFI_TIMEOUT apart; the station associates and  *)
(* loses its association at any time; the settings page may store an       *)
(* empty or a non-empty SSID.                                              *)
(***************************************************************************)
WiFiStep == 10000
MaxTicksWiFi == 6
ReconnectPolls == 2

WiFiAnswers ==
  Answers({[svc \in WiFiServices |-> TRUE]}, {TRUE}, {TRUE}, {0},
          {-1, ReconnectPolls})

InitWiFi ==
  \E c \in {DefaultCfg, LogCfg} :
    Start(Boot(BootLate, AllLow, c, DefaultInputs, FALSE, 4, FALSE))

LoopWiFi ==
  \E e \in WiFiAnswers :
    /\ ticks < MaxTicksWiFi
    /\ Loop(WiFiStep, e)

SaveSsid ==
  \E ssid \in {"", "ssid"}, e \in WiFiAnswers :
    /\ ticks < MaxTicksWiFi
    /\ LoopSave(WiFiStep, [FormOf(State) EXCEPT !.wifi_ssid = ssid], e)

NextWiFi == LoopWiFi \/ SaveSsid \/ LinkUp \/ LinkDown

SpecWiFi == InitWiFi /\ [][NextWiFi]_vars

\* millis() when the iteration just taken called updateWiFiConnection.
PolledAt == tr.entered + tr.saves * SAVE_DELAY_MS

\* C18: an iteration that finds the link Connecting moves it to Connected
\* when the station is associated, to Failed with apMode set when more than
\* WIFI_TIMEOUT has passed since the connect started, and leaves it
\* Connecting otherwise.
C18_ConnectingOutcome ==
  [][ (ticks' = ticks + 1 /\ ~apMode /\ wifiState = "WIFI_CONNECTING") =>
        IF staUp
        THEN wifiState' = "WIFI_CONNECTED" /\ ~apMode'
        ELSE IF PolledAt' - wifiConnectStart > WIFI_TIMEOUT
        THEN wifiState' = "WIFI_FAILED" /\ apMode'
        ELSE wifiState' = "WIFI_CONNECTING" /\ ~apMode' ]_vars

\* C19: wifiState is not Connected after boot, and it becomes Connected
\* only in a step that starts in Connecting with the station associated.
C19_ConnectedOnlyByAssociation ==
  /\ wifiState # "WIFI_CONNECTED"
  /\ [][ (wifiState # "WIFI_CONNECTED" /\ wifiState' = "WIFI_CONNECTED") =>
           (wifiState = "WIFI_CONNECTING" /\ staUp) ]_vars

\* C20: connectWiFiNonBlocking is never called while wifi_ssid is empty,
\* and a boot without a stored SSID ends in access-point mode.
C20_NoConnectWithoutSsid ==
  /\ \A c \in Range(tr.connects) : c.ssid # ""
  /\ (ticks = 0 /\ cfg.wifi_ssid = "") => apMode

(***************************************************************************)
(* SpecWiFiFair: SpecWiFi in which loop() keeps being executed.            *)
(***************************************************************************)
\* An iteration of loop() within the horizon; in SpecWiFi only LoopWiFi and
\* SaveSsid change ticks.
TickWiFi == ticks < MaxTicksWiFi /\ ticks' = ticks + 1

SpecWiFiFair == SpecWiFi /\ WF_ticks(TickWiFi)

\* The iteration just taken logged message (an entry of the given level).
LoggedNow(level, message) ==
  \E l \in Range(tr.logged) : l.level = level /\ l.message = message

\* The iteration just taken gave up a connection attempt after WIFI_TIMEOUT.
ConnectTimedOut == LoggedNow("ERROR", << "WiFi connection timeout", 0 >>)

\* The iteration just taken found the station dropped and its inline
\* reconnect did not associate.
DropNotRecovered ==
  /\ LoggedNow("WARNING", << "WiFi disconnected", 0 >>)
  /\ ~LoggedNow("SUCCESS", << "WiFi reconnected", 0 >>)

\* Iterations the device is given after a failure to start a new attempt:
\* a failure is considered when it happens by this iteration.
LastFailureTick == 3

\* C21: after a connect timeout, or a drop that the inline reconnect did not
\* recover, a later iteration of loop() starts a new WiFi connection
\* attempt, without a restart.
C21_KeepsReconnecting ==
  \A n \in 1 .. LastFailureTick :
    ((ConnectTimedOut \/ DropNotRecovered) /\ ticks = n)
      ~> (ticks > n /\ tr.connects # << >>)

\* Access-point mode entered by setup() because no SSID is stored: no
\* connection was ever started.
SetupAccessPoint == apMode /\ wifiConnectStart = 0

\* The inputs that monitorInput read in the iteration just taken.
SampledNow == {x.input : x \in Range(tr.samples)}

\* C22: in every iteration of loop(), whatever the link state (Idle,
\* Connecting, Connected, Failed, or the access-point fallback after a
\* failed connection), every enabled input is sampled by monitorInput, and
\* every confirmed edge belongs to an input sampled in that iteration.
C22_InputsAlwaysMonitored ==
  (ticks > 0 /\ ~SetupAccessPoint) =>
    /\ \A i \in Inputs : inputs[i].enabled => i \in SampledNow
    /\ \A c \in Range(tr.commits) : c.input \in SampledNow

(***************************************************************************)
(* SpecBlock: the blocking operations.  The modem is initialized; at boot  *)
(* the SIM is ready or not, the network registers at once, late or never,  *)
(* and the context activation succeeds or fails.  Pushbullet goes over the *)
(* cellular relay or over WiFi, SMS is enabled; in each iteration the      *)
(* modem answers at once, after a delay, or not at all.                    *)
(***************************************************************************)
BlockStep == 15000
MaxTicksBlock == 3
LateRegistration == 2
SlowAnswer == 40

BlockCfgs ==
  { [DefaultCfg EXCEPT
       !.pushbullet_enabled = TRUE, !.pushbullet_token = "token",
       !.pushbullet_conn_mode = mode,
       !.sms_enabled = TRUE, !.sms_phone_number = "+15551234567",
       !.cellular_enabled = TRUE, !.modem_initialized = TRUE,
       !.board_type = BOARD_SIM7670G]
    : mode \in {CONN_WIFI_ONLY, CONN_CELL_ONLY} }

ModemBoots ==
  [ simReady : BOOLEAN, regAfter : {-1, 0, LateRegistration}, cgactOk : BOOLEAN,
    atDelay : {SlowAnswer} ]

\* The relay and the SMS succeed or fail together.
BlockAnswers ==
  { e \in TimedAnswers({[svc \in WiFiServices |-> TRUE]}, BOOLEAN, BOOLEAN, {0},
                       {-1, ReconnectPolls}, {-1, SlowAnswer}) :
      e.cellOk = e.smsOk }

InitBlock ==
  \E c \in BlockCfgs, m \in ModemBoots :
    Start(SetupCellular(BootEarly, AllLow, c, DefaultInputs, m, 4, FALSE))

LoopBlock ==
  \E e \in BlockAnswers :
    /\ ticks < MaxTicksBlock
    /\ Loop(BlockStep, e)

NextBlock == LoopBlock \/ PinChange(21) \/ LinkUp \/ LinkDown

SpecBlock == InitBlock /\ [][NextBlock]_vars

\* C23: every blocking wait ends within its bound (the inline reconnect
\* within RECONNECT_ATTEMPTS polls of 500 ms, sendATCommand within its
\* timeout, the SMS answer wait within SMS_TIMEOUT, the registration wait
\* within REGISTRATION_POLLS polls), and a wait that expired makes the
\* operation that waited report a failure.
C23_WaitsBounded ==
  \A w \in Range(tr.waits) :
    /\ w.elapsed <= w.limit
    /\ w.kind = "reconnect" => w.limit = 10000
    /\ w.kind = "sms" => w.limit = 10000
    /\ w.kind = "registration" => w.limit = 30
    /\ w.expired => ~w.ok

\* The time from the keepalive at the start of the iteration just taken to
\* its end; the next keepalive is at the start of the next iteration.
BlockedFor == now - tr.entered

\* C24: the blocking time of one iteration of loop(), from its watchdog
\* keepalive to its end, stays below the watchdog timeout of WDT_TIMEOUT
\* seconds.
C24_WatchdogNeverFires == ticks > 0 => BlockedFor < WDT_TIMEOUT * 1000

(***************************************************************************)
(* SpecOrder: the phases of loop().  The board has the modem's GPS and a   *)
(* BMP180, both enabled or not; some of the four inputs are enabled; an    *)
(* SSID is stored or not; the settings page is submitted with the time     *)
(* zone changed or unchanged.                                              *)
(***************************************************************************)
OrderStep == 10000
MaxTicksOrder == 3
OtherOffset == 3600

EnabledSets == { {0, 1, 2, 3}, {0, 3} }

OrderCfgs ==
  { [DefaultCfg EXCEPT !.wifi_ssid = ssid, !.board_type = BOARD_SIM7670G,
                       !.gps_enabled = sensors, !.bmp180_enabled = sensors,
                       !.bmp180_initialized = sensors]
    : ssid \in {"", "ssid"}, sensors \in BOOLEAN }

OrderInputs(en) == [i \in Inputs |-> [DefaultInputs[i] EXCEPT !.enabled = (i \in en)]]

OrderAnswers == Answers({[svc \in WiFiServices |-> TRUE]}, {TRUE}, {TRUE}, {0}, {-1})

InitOrder ==
  \E c \in OrderCfgs, en \in EnabledSets :
    Start(Boot(BootLate, AllLow, c, OrderInputs(en), FALSE, 4, FALSE))

LoopOrder ==
  \E e \in OrderAnswers :
    /\ ticks < MaxTicksOrder
    /\ Loop(OrderStep, e)

SaveTimeZone ==
  \E offset \in {0, OtherOffset}, e \in OrderAnswers :
    /\ ticks < MaxTicksOrder
    /\ LoopSave(OrderStep, [FormOf(State) EXCEPT !.gmt_offset = offset], e)

NextOrder == LoopOrder \/ SaveTimeZone \/ PinChange(21) \/ PinChange(40) \/ LinkUp

SpecOrder == InitOrder /\ [][NextOrder]_vars

\* The place of a phase in the order that the specification gives.
PhaseRank(ph) ==
  CASE ph.name = "keepalive" -> 0
    [] ph.name = "client" -> 1
    [] ph.name = "save" -> 2
    [] ph.name = "time" -> 3
    [] ph.name = "wifi" -> 4
    [] ph.name = "gps" -> 5
    [] ph.name = "sensor" -> 6
    [] OTHER -> 7 + ph.index

\* C25: the phases that an iteration of loop() reaches come in the order
\* watchdog keepalive, web request servicing, preference save, time update,
\* WiFi link polling, GPS refresh, sensor refresh, inputs 0..3 in index
\* order; the iteration begins with the keepalive and the request servicing.
C25_PhaseOrder ==
  ticks > 0 =>
    /\ Len(tr.phases) >= 2
    /\ tr.phases[1].name = "keepalive" /\ tr.phases[2].name = "client"
    /\ \A j, k \in DOMAIN tr.phases :
         j < k => PhaseRank(tr.phases[j]) < PhaseRank(tr.phases[k])

C25_Witness ==
  /\ { ph.name : ph \in Range(tr.phases) }
       = {"keepalive", "client", "save", "time", "wifi", "gps", "sensor", "input"}
  /\ { ph.index : ph \in {x \in Range(tr.phases) : x.name = "input"} } = Inputs
  /\ Len(tr.commits) >= 2

\* C26: the entries that one pass of processRetryQueue retries are retried
\* in the order in which they were enqueued, oldest first, and an entry
\* that is not due during the pass is still in the queue, unchanged, after
\* it.
C26_RetriedOldestFirst ==
  [][ ticks' = ticks + 1 =>
        /\ \A j, k \in DOMAIN tr'.retried :
             j < k => tr'.retried[j].entry.born <= tr'.retried[k].entry.born
        /\ \A i \in DOMAIN retryQueue :
             retryQueue[i].retryTime > now' =>
               \E k \in DOMAIN retryQueue' : retryQueue'[k] = retryQueue[i] ]_vars

\* The places of the phase name in the iteration just taken.
PhasesNamed(name) == {j \in DOMAIN tr.phases : tr.phases[j].name = name}

\* C27: handleSave only sets needs_save_prefs; savePreferences runs in
\* loop() after the request has been served, in the same iteration, once
\* for each submission and never without one, in access-point mode too, and
\* the flag is clear when the iteration ends.
C27_SaveDeferredOnce ==
  /\ ~needs_save_prefs
  /\ tr.saves = tr.submitted
  /\ Cardinality(PhasesNamed("save")) = tr.submitted
  /\ \A j \in PhasesNamed("save") : \E k \in PhasesNamed("client") : k < j

C27_Witness == apMode /\ tr.submitted = 1 /\ tr.saves = 1 /\ ticks > 1

(***************************************************************************)
(* SpecStamp: two enabled inputs on their own pins, each in either mode,   *)
(* iterations a fifth of MIN_NOTIFICATION_INTERVAL apart, so that an edge  *)
(* of one input is rate limited while the other input dispatches.          *)
(***************************************************************************)
StampStep == 1000
MaxTicksStamp == 5

StampInputs(m0, m3) ==
  [DefaultInputs EXCEPT ![0].momentary_mode = m0,
                        ![3].enabled = TRUE, ![3].momentary_mode = m3]

StampAnswers == Answers({[svc \in WiFiServices |-> TRUE]}, {TRUE}, {TRUE}, {0}, {-1})

InitStamp ==
  \E m0 \in BOOLEAN, m3 \in BOOLEAN :
    Start(Boot(BootLate, AllLow, RetryCfg, StampInputs(m0, m3), FALSE, 4, FALSE))

LoopStamp ==
  \E e \in StampAnswers :
    /\ ticks < MaxTicksStamp
    /\ Loop(StampStep, e)

NextStamp == LoopStamp \/ PinChange(21) \/ PinChange(40) \/ LinkUp

SpecStamp == InitStamp /\ [][NextStamp]_vars

\* C28: an input's lastNotificationTime changes only in an iteration whose
\* monitorInput dispatches a message for that very input; a rate-limited
\* edge, an ignored Momentary release and the activity of another input
\* leave it as it was.
C28_StampOnlyOnDispatch ==
  [][\A i \in Inputs :
       inputs'[i].lastNotificationTime # inputs[i].lastNotificationTime
         => \E d \in Range(tr'.dispatches) :
              d.input = i /\ inputs'[i].lastNotificationTime >= d.at]_vars

\* A rate-limited edge of one input and an ignored release of the other, or
\* a dispatch of the other, in one iteration, the first input's time kept.
C28_Witness ==
  \E c \in Range(tr.commits) :
    /\ c.notifying /\ ~c.passes
    /\ inputs[c.input].lastNotificationTime = c.lastNotificationTime
    /\ \E d \in Range(tr.dispatches) :
         d.input # c.input /\ inputs[d.input].lastNotificationTime >= d.at

(***************************************************************************)
(* SpecCred: the four channels enabled, each of their credentials present  *)
(* or empty; Pushbullet, Email and Telegram over WiFi, SMS over the        *)
(* registered modem; the WiFi requests all succeed or all fail.            *)
(***************************************************************************)
CredStep == 100
MaxTicksCred == 3

OneOf(present, text) == IF present THEN text ELSE ""

CredCfgs ==
  { [DefaultCfg EXCEPT
       !.pushbullet_enabled = TRUE, !.pushbullet_token = OneOf(has[1], "token"),
       !.email_enabled = TRUE, !.smtp_email = OneOf(has[2], "from"),
       !.recipient_email = OneOf(has[3], "to"),
       !.telegram_enabled = TRUE, !.telegram_token = OneOf(has[4], "token"),
       !.telegram_chat_id = OneOf(has[5], "chat"),
       !.sms_enabled = TRUE, !.sms_phone_number = OneOf(has[6], "+15551234567"),
       !.cellular_enabled = TRUE, !.modem_initialized = TRUE,
       !.board_type = BOARD_SIM7670G,
       !.sms_conn_mode = CONN_CELL_ONLY]
    : has \in [1 .. 6 -> BOOLEAN] }

CredAnswers ==
  Answers({[svc \in WiFiServices |-> ok] : ok \in BOOLEAN}, {TRUE}, {TRUE}, {0}, {-1})

InitCred ==
  \E c \in CredCfgs :
    Start(Boot(BootLate, AllLow, c, DefaultInputs, TRUE, 4, FALSE))

LoopCred ==
  \E e \in CredAnswers :
    /\ ticks < MaxTicksCred
    /\ Loop(CredStep, e)

NextCred == LoopCred \/ PinChange(21) \/ LinkUp

SpecCred == InitCred /\ [][NextCred]_vars

\* The link the dispatch d has for the channel: the WiFi link state for the
\* WiFi channels, the modem's registration for SMS.
Reachable(d, svc) ==
  IF svc = "sms" THEN d.cellular_connected ELSE WiFiUpAt(d)

SendsFor(k, svc) == {x \in SendsOfDispatch(k) : x.service = svc}

QueuedFor(k, svc) == {j \in QueuedByDispatch(k) : tr.queued[j].entry.service = svc}

\* C29: at a dispatch an enabled channel one of whose credentials is empty
\* is skipped, with no send attempt and no retry entry, and each channel
\* that has its credentials and its link is attempted once all the same.
C29_MissingCredentialsSkipped ==
  \A k \in DOMAIN tr.dispatches :
    LET d == tr.dispatches[k] IN
    \A svc \in AllServices :
      IF Configured(d.cfg, svc)
      THEN Reachable(d, svc) => Cardinality(SendsFor(k, svc)) = 1
      ELSE SendsFor(k, svc) = {} /\ QueuedFor(k, svc) = {}

\* A dispatch with the link up where Pushbullet lacks its token and Email
\* its recipient, while Telegram and SMS are sent.
C29_Witness ==
  \E k \in DOMAIN tr.dispatches :
    LET d == tr.dispatches[k] IN
    /\ WiFiUpAt(d) /\ d.cellular_connected
    /\ d.cfg.pushbullet_enabled /\ d.cfg.pushbullet_token = ""
    /\ d.cfg.email_enabled /\ d.cfg.recipient_email = "" /\ d.cfg.smtp_email # ""
    /\ SendsFor(k, "pushbullet") = {} /\ SendsFor(k, "email") = {}
    /\ SendsFor(k, "telegram") # {} /\ SendsFor(k, "sms") # {}

\* C30: in every reachable state every entry of retryQueue has a retryCount
\* from 0 to MAX_RETRIES.
C30_RetryCountBounded ==
  \A i \in DOMAIN retryQueue : retryQueue[i].retryCount \in 0 .. MAX_RETRIES

\* An entry whose third retry has just failed: it stays, counted
\* MAX_RETRIES, for its last retry.
C30_Witness ==
  \E x \in Range(tr.rescheduled) :
    /\ x.entry.retryCount = MAX_RETRIES
    /\ \E i \in DOMAIN retryQueue : retryQueue[i] = x.entry

(***************************************************************************)
(* SpecArm: one toggle input that the settings page disables, enables or   *)
(* moves between two pins; iterations a little more than half a            *)
(* DEBOUNCE_DELAY apart.  A pin may also change level during an iteration, *)
(* between the read made by handleSave and the read made by monitorInput   *)
(* (the deferred save, the WiFi polling and the retries lie between them). *)
(***************************************************************************)
ArmStep == 30
MaxTicksArm == 5

ArmPins == {21, 40}

ArmInputs(en) == [DefaultInputs EXCEPT ![0].enabled = en]

ArmAnswers == Answers({[svc \in WiFiServices |-> TRUE]}, {TRUE}, {TRUE}, {0}, {-1})

\* The settings form with input 1 disabled/enabled or moved to the other pin.
ArmForms(s) ==
  { [FormOf(s) EXCEPT !.inputs[0].en = ~@],
    [FormOf(s) EXCEPT !.inputs[0].pin = IF @ = 21 THEN 40 ELSE 21] }

InitArm ==
  \E lv \in { AllLow, PinHigh(21) }, en \in BOOLEAN :
    Start(Boot(BootLate, lv, RetryCfg, ArmInputs(en), FALSE, 4, FALSE))

LoopArm ==
  \E e \in ArmAnswers :
    /\ ticks < MaxTicksArm
    /\ Loop(ArmStep, e)

\* The levels of the pins in ps change.
PinChangedIn(s, ps) ==
  [s EXCEPT !.pinLevel = [p \in DOMAIN @ |-> IF p \in ps THEN ~@[p] ELSE @[p]]]

\* loop() serving a submission; the level of a pin may change after
\* handleSave has returned and before the inputs are monitored.
SaveArm ==
  \E form \in ArmForms(State), e \in ArmAnswers,
     ps \in {{}} \cup {{p} : p \in ArmPins} :
    /\ ticks < MaxTicksArm
    /\ Commit(LoopAfterClient(PinChangedIn(handleSave(Entered(ArmStep), form), ps), e))

NextArm == LoopArm \/ SaveArm \/ PinChange(21) \/ PinChange(40)

SpecArm == InitArm /\ [][NextArm]_vars

\* C31: an input is monitored only while it is enabled, and once a save has
\* disabled it with a transition pending, an edge is confirmed for it later
\* only on a level that the pin took after the save that enabled it again.
C31_ParkedEdgeDropped ==
  \A c \in Range(tr.commits) :
    /\ inputs[c.input].enabled
    /\ hist[c.input].parked => c.since > hist[c.input].armedAt

\* The input enabled again in this iteration, the pin still at the level
\* that was pending when it was disabled: sampled, and nothing confirmed.
C31_Witness ==
  /\ hist[0].parked /\ inputs[0].enabled
  /\ hist[0].armedAt >= tr.entered
  /\ \E x \in Range(tr.samples) : x.input = 0 /\ x.level = hist[0].parkedLevel
  /\ tr.commits = << >> /\ tr.dispatches = << >>

\* C32: once a save has read an input's pin into lastState (the input was
\* enabled, or moved to another pin while enabled), an edge is dispatched
\* for it only on a level that the pin took after that save and that was
\* read for more than DEBOUNCE_DELAY.
C32_RearmedInputDebounced ==
  \A c \in Range(tr.commits) :
    (hist[c.input].armedAt >= 0 /\ c.passes)
      => /\ c.since > hist[c.input].armedAt
         /\ c.at - c.since > DEBOUNCE_DELAY

\* C33: the first notifying edge confirmed for an input after boot is
\* dispatched, not rate limited, however early after the start of the clock
\* it is confirmed.
C33_FirstEdgeDispatched ==
  \A c \in Range(tr.commits) :
    (c.notifying /\ c.previousEdgeAt < 0)
      => c.passes /\ DispatchesOf(c) # {} /\ SuppressedOf(c) = {}

\* C34: a Pushbullet or Telegram channel in backup mode is sent over the
\* cellular path whenever, at the dispatch, the station is not associated
\* and the modem is registered, whatever wifiState still says.
C34_BackupOnStationDown ==
  \A k \in DOMAIN tr.dispatches :
    LET d == tr.dispatches[k] IN
    \A svc \in {"pushbullet", "telegram"} :
      ( /\ Configured(d.cfg, svc)
        /\ ModeOf(d.cfg, svc) = CONN_WIFI_CELL_BACKUP
        /\ ~d.staUp /\ d.cellular_connected )
      => Cardinality(SendsOn(k, svc, "cell")) = 1

\* The inline reconnects of the iteration just taken that found the station
\* associated when their wait loop ended.
Reconnected == {w \in Range(tr.waits) : w.kind = "reconnect" /\ w.ok}

\* C35: an iteration whose inline reconnect succeeded ends with wifiState
\* WIFI_CONNECTED, and the input edges it dispatches see WiFi as up.
C35_ReconnectedIsConnected ==
  Reconnected # {}
    => /\ wifiState = "WIFI_CONNECTED"
       /\ \A d \in Range(tr.dispatches) : d.wifiState = "WIFI_CONNECTED"

(***************************************************************************)
(* SpecWrap: the retry queue around the wrap of millis().  unsigned long   *)
(* is 32 bits wide; a value is kept as two 16-bit halves [hi, lo], and now *)
(* counts the milliseconds from WrapLead before the counter wraps.  A send *)
(* fails and is queued, or loop() makes one processRetryQueue pass, every  *)
(* WrapStep.                                                               *)
(***************************************************************************)
W16 == 65536
WrapLead == 100000
WrapStep == 30000
MaxTicksWrap == 6
MaxQueueWrap == 2

\* a + d modulo 2^32, for 0 <= d < 2^31.
Add32(a, d) ==
  LET lo == a.lo + (d % W16)
  IN [hi |-> (a.hi + (d \div W16) + (lo \div W16)) % W16, lo |-> lo % W16]

\* a >= b on unsigned 32-bit values.
Geq32(a, b) == a.hi > b.hi \/ (a.hi = b.hi /\ a.lo >= b.lo)

\* millis() at the time s.now: the counter reads 2^32 - WrapLead when now
\* is 0.
millis32(s) ==
  Add32([hi |-> W16 - 1 - ((WrapLead - 1) \div W16),
         lo |-> W16 - 1 - ((WrapLead - 1) % W16)], s.now)

\* queueRetry with retryTime computed on unsigned long; due is history: the
\* time at which the delay has passed.
queueRetry32(s, service, title, body) ==
  LET retry == [service |-> service, title |-> title, body |-> body,
                retryTime |-> Add32(millis32(s), RETRY_DELAY), retryCount |-> 0,
                attempts |-> 1, born |-> s.now, due |-> s.now + RETRY_DELAY]
  IN Emit([s EXCEPT !.retryQueue = Append(@, retry)], "queued",
          [entry |-> retry, at |-> s.now])

\* The body of the for loop of processRetryQueue for the entry at position
\* i, the sender answering ok.
RetryEntry32(s0, ok, i) ==
  LET r == s0.retryQueue[i]
      s == Emit(s0, "retried", [entry |-> r, position |-> i, at |-> s0.now])
      tried == [r EXCEPT !.attempts = @ + 1]
  IN IF ok \/ ExhaustedAt(r.retryCount)
     THEN Emit([s EXCEPT !.retryQueue = EraseAt(@, i)], "erased",
               [entry |-> tried, success |-> ok, at |-> s.now])
     ELSE LET next == [tried EXCEPT
                         !.retryCount = @ + 1,
                         !.retryTime = Add32(millis32(s), RetryDelayFor(r.retryCount + 1)),
                         !.due = s.now + RetryDelayFor(r.retryCount + 1)]
          IN Emit([s EXCEPT !.retryQueue[i] = next], "rescheduled",
                  [entry |-> next, at |-> s.now])

\* processRetryQueue from position i down, with "millis() >= retryTime" on
\* unsigned long.
RECURSIVE RetryFrom32(_, _, _)
RetryFrom32(s, ok, i) ==
  IF i < 1 THEN s
  ELSE IF Geq32(millis32(s), s.retryQueue[i].retryTime)
       THEN RetryFrom32(RetryEntry32(s, ok, i), ok, i - 1)
       ELSE RetryFrom32(s, ok, i - 1)

InitWrap == Start(Boot(0, AllLow, RetryCfg, DefaultInputs, FALSE, 4, FALSE))

\* An iteration of loop() with wifiState = WIFI_CONNECTED.
PassWrap ==
  \E ok \in BOOLEAN :
    /\ ticks < MaxTicksWrap
    /\ Commit(RetryFrom32(Emit(Entered(WrapStep), "phases", Phase("retry", 0)), ok,
                          Len(retryQueue)))

\* An iteration of loop() with wifiState = WIFI_CONNECTED in which an input
\* is dispatched after the pass and the send on the WiFi path fails.
QueueWrap ==
  \E ok \in BOOLEAN :
    /\ ticks < MaxTicksWrap
    /\ Len(retryQueue) < MaxQueueWrap
    /\ Commit(queueRetry32(RetryFrom32(Emit(Entered(WrapStep), "phases",
                                            Phase("retry", 0)), ok, Len(retryQueue)),
                           "pushbullet", RetryCfg.notification_title, DefaultOn))

\* An iteration of loop() with wifiState # WIFI_CONNECTED: no pass.
IdleWrap ==
  /\ ticks < MaxTicksWrap
  /\ Commit(Entered(WrapStep))

NextWrap == PassWrap \/ QueueWrap \/ IdleWrap

SpecWrap == InitWrap /\ [][NextWrap]_vars

\* C36: a pass of processRetryQueue retries an entry only when its delay
\* has passed since it was scheduled, and leaves no entry behind whose delay
\* has passed, also when millis() wraps between the scheduling and the due
\* time.
C36_RetryDueAcrossWrap ==
  /\ \A x \in Range(tr.retried) : x.at >= x.entry.due
  /\ PhasesNamed("retry") # {} =>
       \A i \in DOMAIN retryQueue : retryQueue[i].due > now

(***************************************************************************)
(* SpecPass: one toggle input notifying by Pushbullet and Telegram over    *)
(* WiFi; each request may fail or succeed, so that a pass of               *)
(* processRetryQueue finds several entries due and erases some of them.    *)
(***************************************************************************)
PassStep == 60000
MaxTicksPass == 6
MaxQueuePass == 4

PassCfg ==
  [RetryCfg EXCEPT !.telegram_enabled = TRUE, !.telegram_token = "token",
                   !.telegram_chat_id = "chat"]

PassAnswers ==
  Answers({f \in [WiFiServices -> BOOLEAN] : f["email"]}, {TRUE}, {TRUE}, {0}, {-1})

InitPass == Start(Boot(BootLate, AllLow, PassCfg, DefaultInputs, FALSE, 4, FALSE))

LoopPass ==
  \E e \in PassAnswers :
    /\ ticks < MaxTicksPass
    /\ Loop(PassStep, e)
    /\ Len(retryQueue') <= MaxQueuePass

NextPass == LoopPass \/ PinChange(21) \/ LinkUp

SpecPass == InitPass /\ [][NextPass]_vars

\* The positions of the queue whose entries are due at the time t.
DueAt(q, t) == {i \in DOMAIN q : q[i].retryTime <= t}

\* C37: in one pass of processRetryQueue every entry that is due when the
\* pass starts is attempted exactly once; the index goes down through
\* positions of the queue, so that no position is attempted twice, and the
\* entry read at a position is the one that was there when the pass
\* started, whatever was erased before.
C37_PassAttemptsEachDueOnce ==
  [][ (ticks' = ticks + 1 /\ ~apMode' /\ wifiState' = "WIFI_CONNECTED") =>
        LET r == tr'.retried
        IN /\ \A i \in DueAt(retryQueue, tr'.entered) :
                Cardinality({k \in DOMAIN r : r[k].position = i}) = 1
           /\ \A k \in DOMAIN r :
                /\ r[k].position \in DOMAIN retryQueue
                /\ r[k].entry = retryQueue[r[k].position]
                /\ k > 1 => r[k].position < r[k - 1].position ]_vars

\* A pass attempted the entry at position 2 and erased it, then attempted
\* the entry at position 1 and kept it.
C37_Witness ==
  /\ Len(tr.retried) = 2
  /\ tr.retried[1].position = 2
  /\ tr.retried[2].position = 1
  /\ \E x \in Range(tr.erased) : x.entry.service = tr.retried[1].entry.service
  /\ \E x \in Range(tr.rescheduled) : x.entry.service = tr.retried[2].entry.service
  /\ Len(retryQueue) = 1
  /\ wifiState = "WIFI_CONNECTED"
====
